---- MODULE Spec2Model ----
(***************************************************************************)
(* A model of the BackofficeApp backend: the organisation store (users,    *)
(* partners, employees, branches), the catalogue (courses, categories,     *)
(* lessons), the blob store behind the file fields, and the request        *)
(* handlers (viewsets and serializers) that read and write them.           *)
(*                                                                         *)
(* Every handler is one action.  An action records what the caller saw in  *)
(* `last` (the HTTP status and whatever the response or the write carried).*)
(***************************************************************************)
EXTENDS Integers, FiniteSets, Sequences, TLC

(***************************************************************************)
(* Bounds of the model.                                                    *)
(***************************************************************************)
MaxUsers == 6
MaxPartners == 3
MaxBranches == 3
MaxCategories == 3
MaxCourses == 2
MaxLessons == 2
MaxAge == 2
MaxWorkers == 2

(***************************************************************************)
(* Identifiers.  Primary keys are positive; None stands for Python's None  *)
(* (a null foreign key, a missing instance).                               *)
(***************************************************************************)
None == 0
UserIds == 1..MaxUsers
PartnerIds == 1..MaxPartners
BranchIds == 1..MaxBranches
CategoryIds == 1..MaxCategories
CourseIds == 1..MaxCourses
LessonIds == 1..MaxLessons
GroupNames == {"superuser", "owner", "teacher"}
Workers == 1..MaxWorkers

VARIABLES
    users,       \* User rows: id -> [email, groups, is_superuser, image]
    partners,    \* Partner rows: id -> [owner]
    employees,   \* Employee rows, keyed by user id: id -> [partner, branches, courses]
    branches,    \* Branch rows: id -> [partner]
    categories,  \* Category rows: id -> [parent]
    courses,     \* Course rows: id -> [name, categories, image]
    lessons,     \* Lesson rows: id -> [course, presentation, additional_file]
    store,       \* the blob store (default_storage): the set of names that hold a blob
    nextId,      \* the auto-increment counters of the tables
    last,        \* the last request: what was asked and what came back
    inflight     \* the requests the workers are in the middle of: worker -> position

vars == <<users, partners, employees, branches, categories, courses, lessons,
          store, nextId, last, inflight>>

\* The rows of course_management
catalogue == <<categories, courses, lessons>>

(***************************************************************************)
(* The database after setup_project, scaled down: a superuser, two         *)
(* partners each with its owner, one teacher and one branch.               *)
(***************************************************************************)
\* A storage name "dir/name" is kept as its two parts; dir is "" for a name
\* without a directory.  NoFile is the empty file field (None or "").
StorageName(dir, name) == [dir |-> dir, name |-> name]

NoFile == StorageName("", "")

\* A worker that is between requests
Idle == [pc |-> "idle"]

FixtureUsers ==
    (1 :> [email |-> "superuser@gmail.com", groups |-> {"superuser"},
           is_superuser |-> TRUE, image |-> NoFile]) @@
    (2 :> [email |-> "owner1@gmail.com", groups |-> {"owner"},
           is_superuser |-> FALSE, image |-> NoFile]) @@
    (3 :> [email |-> "owner2@gmail.com", groups |-> {"owner"},
           is_superuser |-> FALSE, image |-> NoFile]) @@
    (4 :> [email |-> "teacher11@gmail.com", groups |-> {"teacher"},
           is_superuser |-> FALSE, image |-> StorageName("user_images", "a.png")]) @@
    (5 :> [email |-> "teacher21@gmail.com", groups |-> {"teacher"},
           is_superuser |-> FALSE, image |-> NoFile])

FixturePartners ==
    (1 :> [owner |-> 2]) @@ (2 :> [owner |-> 3])

FixtureEmployees ==
    (4 :> [partner |-> 1, branches |-> {1}, courses |-> {1}]) @@
    (5 :> [partner |-> 2, branches |-> {2}, courses |-> {1}])

FixtureBranches ==
    (1 :> [partner |-> 1]) @@ (2 :> [partner |-> 2])

\* Two of the categories: a root and a subcategory of it
FixtureCategories ==
    (1 :> [parent |-> None]) @@ (2 :> [parent |-> 1])

FixtureCourses ==
    (1 :> [name |-> "roblox", min_age |-> 1, max_age |-> 2, categories |-> {1, 2},
           image |-> StorageName("course_images", "a.png")])

FixtureLessons ==
    (1 :> [course |-> 1,
           presentation |-> StorageName("roblox", "p.pptx"),
           additional_file |-> StorageName("roblox", "z.zip")])

\* The blobs upload_file_to_minio put in the store
FixtureStore ==
    {StorageName("user_images", "a.png"), StorageName("course_images", "a.png"),
     StorageName("roblox", "p.pptx"), StorageName("roblox", "z.zip")}

Init ==
    /\ users = FixtureUsers
    /\ partners = FixturePartners
    /\ employees = FixtureEmployees
    /\ branches = FixtureBranches
    /\ categories = FixtureCategories
    /\ courses = FixtureCourses
    /\ lessons = FixtureLessons
    /\ store = FixtureStore
    /\ nextId = [user |-> 6, partner |-> 3, branch |-> 3, category |-> 3,
                 course |-> 2, lesson |-> 2]
    /\ last = [op |-> "setup"]
    /\ inflight = [w \in Workers |-> Idle]

(***************************************************************************)
(* Who sends the requests: the superuser and the owner and the teacher of  *)
(* partner 1.  Partner 2 and its people are the other tenant, whose rows   *)
(* those callers must not reach; its own requests would mirror theirs.     *)
(***************************************************************************)
Callers == {1, 2, 4} \cap DOMAIN users

(***************************************************************************)
(* Relations of the ORM.                                                   *)
(***************************************************************************)
\* user.groups.filter(name=g).exists()
InGroup(u, g) == g \in users[u].groups

\* user.owned_partner: the reverse side of Partner.owner (one-to-one).
\* The set has at most one element; empty means RelatedObjectDoesNotExist.
OwnedPartners(u) == {p \in DOMAIN partners : partners[p].owner = u}

OwnedPartner(u) == CHOOSE p \in OwnedPartners(u) : TRUE

\* user.employee: the reverse side of Employee.user (one-to-one, primary key).
HasEmployee(u) == u \in DOMAIN employees

\* branch.employees: the reverse side of Employee.branches (many-to-many).
BranchEmployees(b) == {e \in DOMAIN employees : b \in employees[e].branches}

(***************************************************************************)
(* Listing: the get_queryset methods of the partner_management viewsets.   *)
(*                                                                         *)
(* A filter on a column the model does not keep (search over names,        *)
(* status, date) is given by the set of rows whose column matches: the     *)
(* code applies it with queryset.filter, which keeps the rows of the       *)
(* queryset that are in that set.  A filter that is absent or empty        *)
(* ("if search:") is off.                                                  *)
(***************************************************************************)
ColumnFilters(rows) ==
    {[on |-> FALSE, rows |-> {}]} \cup {[on |-> TRUE, rows |-> r] : r \in SUBSET rows}

\* The same, for a request whose filter value every row matches
PlainFilters(rows) ==
    {[on |-> FALSE, rows |-> {}], [on |-> TRUE, rows |-> rows]}

\* queryset.filter(<column condition>)
Narrow(queryset, f) == IF f.on THEN queryset \cap f.rows ELSE queryset

\* PartnerViewSet.get_queryset, the role part
PartnerRoleScope(caller) ==
    IF InGroup(caller, "teacher")
    THEN {p \in DOMAIN partners :
             \E e \in DOMAIN employees : employees[e].partner = p /\ e = caller}
    ELSE IF InGroup(caller, "owner")
    THEN {p \in DOMAIN partners : partners[p].owner = caller}
    ELSE DOMAIN partners

\* PartnerViewSet.get_queryset: the role part, then search, status, date
PartnerGetQueryset(caller, q) ==
    Narrow(Narrow(Narrow(PartnerRoleScope(caller), q.search), q.status), q.date)

\* request.user.employee.partner / request.user.owned_partner raise
\* RelatedObjectDoesNotExist when the caller has no such row
RoleScopeRaises(caller) ==
    IF InGroup(caller, "teacher") THEN ~HasEmployee(caller)
    ELSE IF InGroup(caller, "owner") THEN OwnedPartners(caller) = {}
    ELSE FALSE

EmployeeRoleScopeUnrestricted(caller) == DOMAIN employees

\* EmployeeViewSet.get_queryset, the role part
EmployeeRoleScope(caller) ==
    IF InGroup(caller, "teacher")
    THEN {e \in DOMAIN employees : employees[e].partner = employees[caller].partner}
    ELSE IF InGroup(caller, "owner")
    THEN {e \in DOMAIN employees : employees[e].partner = OwnedPartner(caller)}
    ELSE DOMAIN employees

\* EmployeeViewSet.get_queryset: the role part, then partner_id, course_id,
\* search (one filter per term: the rows matching every term), status, group
EmployeeGetQueryset(caller, q) ==
    LET q0 == EmployeeRoleScope(caller)
        q1 == IF q.partner_id # None
              THEN {e \in q0 : employees[e].partner = q.partner_id} ELSE q0
        q2 == IF q.course_id # None
              THEN {e \in q1 : q.course_id \in employees[e].courses} ELSE q1
        q3 == Narrow(q2, q.search)
        q4 == Narrow(q3, q.status)
    IN  IF q.group # "" THEN {e \in q4 : InGroup(e, q.group)} ELSE q4

\* BranchViewSet.get_queryset, the role part
BranchRoleScope(caller) ==
    IF InGroup(caller, "teacher")
    THEN {b \in DOMAIN branches : branches[b].partner = employees[caller].partner}
    ELSE IF InGroup(caller, "owner")
    THEN {b \in DOMAIN branches : branches[b].partner = OwnedPartner(caller)}
    ELSE DOMAIN branches

\* BranchViewSet.get_queryset: the role part, then partner_id, search, status, date
BranchGetQueryset(caller, q) ==
    LET q0 == BranchRoleScope(caller)
        q1 == IF q.partner_id # None
              THEN {b \in q0 : branches[b].partner = q.partner_id} ELSE q0
    IN  Narrow(Narrow(Narrow(q1, q.search), q.status), q.date)

\* The answer of a list request.  datetime.strptime raises ValueError on a
\* date that is not YYYY-MM-DD, which ends the request with a server error.
Listed(kind, caller, partner_id, raises, rows) ==
    [op |-> "list", kind |-> kind, caller |-> caller, partner_id |-> partner_id,
     status |-> IF raises THEN 500 ELSE 200,
     rows |-> IF raises THEN {} ELSE rows]

\* GET /api/partners/
ListPartners ==
    \E caller \in Callers, badDate \in BOOLEAN :
    \E search \in ColumnFilters(DOMAIN partners),
       status \in PlainFilters(DOMAIN partners),
       date \in PlainFilters(DOMAIN partners) :
        /\ badDate => date.on
        /\ last' = Listed("partners", caller, None, badDate,
                          PartnerGetQueryset(caller,
                              [search |-> search, status |-> status, date |-> date]))
        /\ UNCHANGED <<users, partners, employees, branches, nextId, catalogue, store, inflight>>

\* GET /api/employees/
ListEmployees ==
    \E caller \in Callers :
    \E partner_id \in {None} \cup PartnerIds, course_id \in {None, 1},
       group \in {"", "teacher", "owner"},
       search \in ColumnFilters(DOMAIN employees),
       status \in PlainFilters(DOMAIN employees) :
        /\ last' = Listed("employees", caller, partner_id, RoleScopeRaises(caller),
                          EmployeeGetQueryset(caller,
                              [partner_id |-> partner_id, course_id |-> course_id,
                               search |-> search, status |-> status, group |-> group]))
        /\ UNCHANGED <<users, partners, employees, branches, nextId, catalogue, store, inflight>>

\* GET /api/branches/
ListBranches ==
    \E caller \in Callers, badDate \in BOOLEAN :
    \E partner_id \in {None} \cup PartnerIds,
       search \in ColumnFilters(DOMAIN branches),
       status \in PlainFilters(DOMAIN branches),
       date \in PlainFilters(DOMAIN branches) :
        /\ badDate => date.on
        /\ last' = Listed("branches", caller, partner_id,
                          RoleScopeRaises(caller) \/ badDate,
                          BranchGetQueryset(caller,
                              [partner_id |-> partner_id, search |-> search,
                               status |-> status, date |-> date]))
        /\ UNCHANGED <<users, partners, employees, branches, nextId, catalogue, store, inflight>>

(***************************************************************************)
(* Branch writes: BranchViewSet with BranchSerializer or, for a caller in  *)
(* the owner group, BranchSerializerForOwner.                              *)
(*                                                                         *)
(* A payload says for each field whether it is present; the columns the    *)
(* model does not keep are taken to be valid.                              *)
(***************************************************************************)
BranchPayloads ==
    {[hasPartner |-> pa # None, partner |-> pa,
      hasEmployees |-> es # <<>>, employees |-> IF es = <<>> THEN {} ELSE es[1]] :
        pa \in {None} \cup PartnerIds,
        es \in {<<>>} \cup {<<x>> : x \in SUBSET DOMAIN employees}}

\* BranchViewSet.get_serializer_class
BranchSerializerClass(caller) ==
    IF InGroup(caller, "owner") THEN "BranchSerializerForOwner" ELSE "BranchSerializer"

\* The fields the serializer takes from the payload: partner is read-only
\* in BranchSerializerForOwner, so it is dropped there.
BranchInternalValue(cls, payload) ==
    IF cls = "BranchSerializerForOwner"
    THEN [payload EXCEPT !.hasPartner = FALSE, !.partner = None]
    ELSE payload

\* Field validation: partner is a required foreign key of BranchSerializer
\* (not on a partial update) and must name a stored partner.
BranchFieldErrors(cls, payload, partial) ==
    /\ cls = "BranchSerializer"
    /\ \/ ~payload.hasPartner /\ ~partial
       \/ payload.hasPartner /\ payload.partner \notin DOMAIN partners

BranchValidateKeepAll(data, instance) == data

\* BranchSerializer.validate
BranchValidate(data, instance) ==
    LET partner == IF data.hasPartner THEN data.partner
                   ELSE IF instance # None THEN branches[instance].partner ELSE None
    IN  IF ~data.hasEmployees THEN data
        ELSE [data EXCEPT !.employees =
                  {e \in data.employees : employees[e].partner = partner}]

\* branch.employees.set(value): the reverse side of Employee.branches
SetBranchEmployees(b, value) ==
    [e \in DOMAIN employees |->
        [employees[e] EXCEPT !.branches =
            IF e \in value THEN @ \cup {b} ELSE @ \ {b}]]

BranchWritten(caller, instance, branch, payload, status) ==
    [op |-> "BranchWrite", caller |-> caller, branch |-> branch,
     hasEmployees |-> payload.hasEmployees,
     submitted |-> payload.employees, status |-> status,
     partnerField |-> IF BranchSerializerClass(caller) = "BranchSerializer"
                      THEN IF payload.hasPartner THEN payload.partner ELSE None
                      ELSE -1]

\* POST /api/branches/
BranchCreate ==
    \E caller \in Callers, payload \in BranchPayloads :
        LET cls == BranchSerializerClass(caller)
            data == BranchValidate(BranchInternalValue(cls, payload), None)
            id == nextId.branch
        IN  /\ id <= MaxBranches
            /\ IF BranchFieldErrors(cls, payload, FALSE)
               THEN /\ last' = BranchWritten(caller, None, None, payload, 400)
                    /\ UNCHANGED <<branches, employees, nextId>>
               ELSE IF cls = "BranchSerializerForOwner" /\ OwnedPartners(caller) = {}
               THEN \* BranchSerializerForOwner.create: request.user.owned_partner raises
                    /\ last' = BranchWritten(caller, None, None, payload, 500)
                    /\ UNCHANGED <<branches, employees, nextId>>
               ELSE /\ branches' = branches @@
                          (id :> [partner |-> IF cls = "BranchSerializerForOwner"
                                              THEN OwnedPartner(caller)
                                              ELSE data.partner])
                    /\ employees' = IF data.hasEmployees
                                    THEN SetBranchEmployees(id, data.employees)
                                    ELSE employees
                    /\ nextId' = [nextId EXCEPT !.branch = id + 1]
                    /\ last' = BranchWritten(caller, None, id, payload, 201)
            /\ UNCHANGED <<users, partners, catalogue, store, inflight>>

\* PUT and PATCH /api/branches/<b>/
BranchUpdate ==
    \E caller \in Callers, b \in BranchIds, payload \in BranchPayloads,
       partial \in BOOLEAN :
        LET cls == BranchSerializerClass(caller)
            data == BranchValidate(BranchInternalValue(cls, payload), b)
        IN  /\ payload.hasPartner => ~partial   \* PUT and PATCH differ only in what may be absent
            /\ IF RoleScopeRaises(caller)
               THEN /\ last' = BranchWritten(caller, b, None, payload, 500)
                    /\ UNCHANGED <<branches, employees>>
               ELSE IF b \notin BranchRoleScope(caller)
               THEN /\ last' = BranchWritten(caller, b, None, payload, 404)
                    /\ UNCHANGED <<branches, employees>>
               ELSE IF BranchFieldErrors(cls, payload, partial)
               THEN /\ last' = BranchWritten(caller, b, None, payload, 400)
                    /\ UNCHANGED <<branches, employees>>
               ELSE /\ branches' = IF data.hasPartner
                                   THEN [branches EXCEPT ![b].partner = data.partner]
                                   ELSE branches
                    /\ employees' = IF data.hasEmployees
                                    THEN SetBranchEmployees(b, data.employees)
                                    ELSE employees
                    /\ last' = BranchWritten(caller, b, b, payload, 200)
            /\ UNCHANGED <<users, partners, nextId, catalogue, store, inflight>>

(***************************************************************************)
(* Partner writes: PartnerViewSet with PartnerSerializer.                  *)
(***************************************************************************)
PartnerPayloads ==
    {d \in [hasOwner : BOOLEAN, owner : {None} \cup UserIds] :
        ~d.hasOwner => d.owner = None}

\* Field validation of owner: the primary key must name a stored user, and
\* Partner.owner is one-to-one, so the field carries a UniqueValidator: no
\* other partner may have this owner.  A null owner skips the validators.
PartnerFieldErrors(payload, instance) ==
    /\ payload.hasOwner
    /\ payload.owner # None
    /\ \/ payload.owner \notin DOMAIN users
       \/ \E p \in DOMAIN partners : p # instance /\ partners[p].owner = payload.owner

PartnerValidateAnyOwner(data) == "ok"

\* PartnerSerializer.validate: "raise" is the ValidationError; on a null
\* owner data['owner'].groups is an AttributeError
PartnerValidate(data) ==
    IF data.hasOwner
    THEN IF data.owner = None THEN "AttributeError"
         ELSE IF ~InGroup(data.owner, "owner") THEN "raise" ELSE "ok"
    ELSE "ok"

PartnerWritten(caller, instance, partner, payload, status) ==
    [op |-> "PartnerWrite", instance |-> instance, partner |-> partner,
     hasOwner |-> payload.hasOwner, owner |-> payload.owner,
     status |-> status, before |-> partners]

\* What the serializer answers for a payload: 400, 500, or 0 to go on and save
PartnerSerializerStatus(payload, instance) ==
    IF PartnerFieldErrors(payload, instance) THEN 400
    ELSE IF PartnerValidate(payload) = "raise" THEN 400
    ELSE IF PartnerValidate(payload) = "AttributeError" THEN 500
    ELSE 0

\* POST /api/partners/
PartnerCreate ==
    \E caller \in Callers, payload \in PartnerPayloads :
        LET id == nextId.partner
            st == PartnerSerializerStatus(payload, None)
        IN  /\ id <= MaxPartners
            /\ IF st # 0
               THEN /\ last' = PartnerWritten(caller, None, None, payload, st)
                    /\ UNCHANGED <<partners, nextId>>
               ELSE /\ partners' = partners @@ (id :> [owner |-> payload.owner])
                    /\ nextId' = [nextId EXCEPT !.partner = id + 1]
                    /\ last' = PartnerWritten(caller, None, id, payload, 201)
            /\ UNCHANGED <<users, employees, branches, catalogue, store, inflight>>

\* PUT and PATCH /api/partners/<p>/
PartnerUpdate ==
    \E caller \in Callers, p \in PartnerIds, payload \in PartnerPayloads :
        LET st == PartnerSerializerStatus(payload, p)
        IN  /\ IF p \notin PartnerRoleScope(caller)
               THEN /\ last' = PartnerWritten(caller, p, None, payload, 404)
                    /\ UNCHANGED partners
               ELSE IF st # 0
               THEN /\ last' = PartnerWritten(caller, p, None, payload, st)
                    /\ UNCHANGED partners
               ELSE /\ partners' = IF payload.hasOwner
                                   THEN [partners EXCEPT ![p].owner = payload.owner]
                                   ELSE partners
                    /\ last' = PartnerWritten(caller, p, p, payload, 200)
            /\ UNCHANGED <<users, employees, branches, nextId, catalogue, store, inflight>>

\* DELETE /api/partners/<p>/: Employee.partner and Branch.partner are
\* on_delete=CASCADE, so the partner's employees and branches go with it
\* (the users of the employees stay).
PartnerDestroy ==
    \E caller \in Callers, p \in PartnerIds :
        /\ IF p \notin PartnerRoleScope(caller)
           THEN /\ last' = [op |-> "PartnerDestroy", partner |-> p, status |-> 404]
                /\ UNCHANGED <<partners, employees, branches>>
           ELSE /\ partners' = [q \in DOMAIN partners \ {p} |-> partners[q]]
                /\ branches' = [b \in {x \in DOMAIN branches : branches[x].partner # p}
                                   |-> branches[b]]
                /\ employees' =
                       [e \in {x \in DOMAIN employees : employees[x].partner # p} |->
                           [employees[e] EXCEPT !.branches =
                               {b \in @ : branches[b].partner # p}]]
                /\ last' = [op |-> "PartnerDestroy", partner |-> p, status |-> 204]
        /\ UNCHANGED <<users, nextId, catalogue, store, inflight>>

(***************************************************************************)
(* File fields (Course.image, Lesson.presentation, Lesson.additional_file, *)
(* User.image) and the blob store behind them.                             *)
(*                                                                         *)
(* What a request carries for a file field is absent (the key is not in    *)
(* the payload), null (an empty value), or an uploaded file with its file  *)
(* name.  A model-level save may also assign a storage name to the         *)
(* attribute ("reference"), as setup_project does.  The store is an object *)
(* store: it keeps one blob per name, a put to a taken name replaces the   *)
(* blob, and deleting a name that holds no blob is not an error.           *)
(***************************************************************************)
ImageNames == {"a.png", "b.png"}
LessonFileNames == {"p.pptx", "q.pdf", "z.zip"}

\* str.endswith for the file names above
Suffix ==
    ("a.png" :> ".png") @@ ("b.png" :> ".png") @@ ("p.pptx" :> ".pptx") @@
    ("q.pdf" :> ".pdf") @@ ("z.zip" :> ".zip")

EndsWith(name, suffix) == Suffix[name] = suffix

Absent == [kind |-> "absent", dir |-> "", name |-> ""]
Null == [kind |-> "null", dir |-> "", name |-> ""]
Upload(name) == [kind |-> "upload", dir |-> "", name |-> name]
Reference(ref) == [kind |-> "reference", dir |-> ref.dir, name |-> ref.name]

FieldInputs(names) == {Absent, Null} \cup {Upload(n) : n \in names}

\* bool(field_file): a FieldFile is true when it has a name
HasFile(ref) == ref # NoFile

\* name.split("/")[-1]
Basename(ref) == StorageName("", ref.name)

\* The attribute after the serializer's setattr, read back through the file
\* descriptor: the FieldFile's name and whether it is committed to the store
Assigned(old, input) ==
    IF input.kind = "absent" THEN [ref |-> old, committed |-> TRUE]
    ELSE IF input.kind = "null" THEN [ref |-> NoFile, committed |-> TRUE]
    ELSE [ref |-> StorageName(input.dir, input.name),
          committed |-> input.kind = "reference"]

SaveDeletesNothing(old, new) == <<>>

SaveDeletesAlways(old, new) ==
    IF HasFile(old) /\ HasFile(new.ref) THEN <<old>> ELSE <<>>

\* save(), first if of a file field: the names handed to default_storage.delete
SaveDeletes(old, new) ==
    IF HasFile(old) /\ HasFile(new.ref) /\ old # new.ref THEN <<old>> ELSE <<>>

\* save(), second if of a file field: the attribute afterwards
SaveKeeps(old, new) ==
    IF HasFile(old) /\ ~HasFile(new.ref)
    THEN [ref |-> Basename(old), committed |-> TRUE]
    ELSE new

\* FileField.pre_save: a file that is not committed is put in the store under
\* upload_to joined with its file name, and that becomes the stored name
NeedsUpload(value) == HasFile(value.ref) /\ ~value.committed

PreSave(dir, value) ==
    IF NeedsUpload(value) THEN StorageName(dir, value.ref.name) ELSE value.ref

\* default_storage.delete, called for each name in turn, outside any try:
\* the first call that raises ends the run
RECURSIVE RunDeletes(_, _)
RunDeletes(names, raising) ==
    IF names = <<>> THEN [deleted |-> {}, raised |-> FALSE]
    ELSE IF Head(names) \in raising THEN [deleted |-> {}, raised |-> TRUE]
    ELSE LET rest == RunDeletes(Tail(names), raising)
         IN  [deleted |-> {Head(names)} \cup rest.deleted, raised |-> rest.raised]

\* The names a sequence holds
Range(seq) == {seq[i] : i \in DOMAIN seq}

\* The concatenation of a sequence of sequences
RECURSIVE Flatten(_)
Flatten(seqs) == IF seqs = <<>> THEN <<>> ELSE Head(seqs) \o Flatten(Tail(seqs))

\* Model.save() of a row with file fields: olds are the stored names of the
\* file fields (in the order save() handles them), news the attributes of
\* the instance, dir the upload directory.  olds is empty for a new row.
\* DeleteCalls are the names save() hands to default_storage.delete, in
\* order.  When a delete raises, save() ends there: what was deleted stays
\* deleted, nothing is uploaded and the row is not written.
DeleteCalls(olds, news) ==
    Flatten([i \in DOMAIN olds |-> SaveDeletes(olds[i], news[i])])

ModelSave(olds, news, dir, raising) ==
    LET run == RunDeletes(DeleteCalls(olds, news), raising)
        values == [i \in DOMAIN news |->
                      IF i \in DOMAIN olds THEN SaveKeeps(olds[i], news[i]) ELSE news[i]]
    IN  [raised |-> run.raised,
         deleted |-> run.deleted,
         put |-> IF run.raised THEN {}
                 ELSE {StorageName(dir, values[i].ref.name) :
                          i \in {j \in DOMAIN values : NeedsUpload(values[j])}},
         refs |-> [i \in DOMAIN news |-> PreSave(dir, values[i])]]

\* The deletions that fail in a request: any of those it calls for
DeleteFailures(names) == SUBSET Range(names)

\* What `last` keeps of a file field of a write
FieldSeen(input, old) ==
    [kind |-> input.kind, dir |-> input.dir, name |-> input.name,
     old |-> old, held |-> old \in store]

\* A write that ended before save()
NotSaved == [raised |-> FALSE, deleted |-> {}, put |-> {}, refs |-> <<>>]

(***************************************************************************)
(* Category writes: CategoryViewSet with CategorySerializer.  parent is a  *)
(* primary-key field over all categories: any stored category is accepted, *)
(* the category itself included.                                           *)
(***************************************************************************)
CategoryWritten(category, parent, status) ==
    [op |-> "CategoryWrite", category |-> category, parent |-> parent, status |-> status]

\* POST /api/categories/
CategoryCreate ==
    \E parent \in {None} \cup CategoryIds :
        LET id == nextId.category
        IN  /\ id <= MaxCategories
            /\ IF parent # None /\ parent \notin DOMAIN categories
               THEN /\ last' = CategoryWritten(None, parent, 400)
                    /\ UNCHANGED <<categories, nextId>>
               ELSE /\ categories' = categories @@ (id :> [parent |-> parent])
                    /\ nextId' = [nextId EXCEPT !.category = id + 1]
                    /\ last' = CategoryWritten(id, parent, 201)
            /\ UNCHANGED <<users, partners, employees, branches, courses, lessons, store, inflight>>

\* PUT and PATCH /api/categories/<c>/
CategoryUpdate ==
    \E c \in CategoryIds, parent \in {None} \cup CategoryIds :
        /\ IF c \notin DOMAIN categories
           THEN /\ last' = CategoryWritten(c, parent, 404)
                /\ UNCHANGED categories
           ELSE IF parent # None /\ parent \notin DOMAIN categories
           THEN /\ last' = CategoryWritten(c, parent, 400)
                /\ UNCHANGED categories
           ELSE /\ categories' = [categories EXCEPT ![c].parent = parent]
                /\ last' = CategoryWritten(c, parent, 200)
        /\ UNCHANGED <<users, partners, employees, branches, courses, lessons, store, nextId, inflight>>

(***************************************************************************)
(* Course writes: CourseViewSet with CourseSerializer or, for an update by *)
(* a caller in the owner group, CourseSerializerUpdateTeachers.            *)
(***************************************************************************)
\* The request got no answer: the handler did not return
Hangs == -1

CourseNames == {"scratch"}

\* The ages a course or a query can carry
Ages == 0..MaxAge

\* <<min_age, max_age>> of a payload; the model does not require min <= max,
\* as the code does not
AgeRanges == Ages \X Ages

\* The age range of a created course whose payload is not about ages
DefaultAges == <<1, 2>>

\* Payloads over the given values of the categories, image, teachers and
\* min_age/max_age fields; categories, teachers and the ages may also be
\* absent
CoursePayloadsWithAges(categorySets, images, teacherSets, ageRanges) ==
    {[hasCategories |-> cs # <<>>, categories |-> IF cs = <<>> THEN {} ELSE cs[1],
      image |-> im,
      hasTeachers |-> ts # <<>>, teachers |-> IF ts = <<>> THEN {} ELSE ts[1],
      hasAges |-> ar # <<>>, ages |-> IF ar = <<>> THEN DefaultAges ELSE ar[1]] :
        cs \in {<<>>} \cup {<<x>> : x \in categorySets},
        im \in images,
        ts \in {<<>>} \cup {<<x>> : x \in teacherSets},
        ar \in {<<>>} \cup {<<x>> : x \in ageRanges}}

\* Payloads that are not about the ages
CoursePayloads(categorySets, images, teacherSets) ==
    CoursePayloadsWithAges(categorySets, images, teacherSets, {})

\* CourseViewSet.get_serializer_class
CourseSerializerClass(caller, action) ==
    IF InGroup(caller, "owner") /\ action \in {"update", "partial_update"}
    THEN "CourseSerializerUpdateTeachers"
    ELSE "CourseSerializer"

\* CourseViewSet.get_queryset, the role part
CourseRoleScope(caller) ==
    IF InGroup(caller, "teacher")
    THEN {c \in DOMAIN courses :
             \E e \in DOMAIN employees : c \in employees[e].courses /\ e = caller}
    ELSE DOMAIN courses

CourseInternalValueAll(cls, payload) == payload

\* The fields the serializer takes from the payload:
\* CourseSerializerUpdateTeachers has the teachers field only
CourseInternalValue(cls, payload) ==
    IF cls = "CourseSerializerUpdateTeachers"
    THEN [payload EXCEPT !.hasCategories = FALSE, !.categories = {}, !.image = Absent,
                         !.hasAges = FALSE, !.ages = DefaultAges]
    ELSE payload

\* The queryset of the teachers field: Employee.objects.filter(user__groups__name="teacher")
TeacherEmployees == {e \in DOMAIN employees : InGroup(e, "teacher")}

\* Field validation: categories is required (not on a partial update), may
\* not be empty and must name stored categories; teachers must be in the
\* field's queryset
CourseFieldErrors(data, partial, cls) ==
    \/ cls = "CourseSerializer" /\ ~data.hasCategories /\ ~partial
    \/ data.hasCategories /\ data.categories = {}
    \/ data.hasCategories /\ ~(data.categories \subseteq DOMAIN categories)
    \/ data.hasTeachers /\ ~(data.teachers \subseteq TeacherEmployees)

\* validate_categories, the while loop for one category: the parents it adds.
\* `visited` are the categories the loop has been at; coming back to one of
\* them means the loop goes round for ever.
RECURSIVE WalkParents(_, _)
WalkParents(category, visited) ==
    LET parent == categories[category].parent
    IN  IF parent = None THEN [ends |-> TRUE, added |-> {}]
        ELSE IF parent \in visited THEN [ends |-> FALSE, added |-> {parent}]
        ELSE LET rest == WalkParents(parent, visited \cup {parent})
             IN  [ends |-> rest.ends, added |-> {parent} \cup rest.added]

ValidateCategoriesOneLevel(value) ==
    [ends |-> TRUE,
     categories |-> value \cup ({categories[c].parent : c \in value} \ {None})]

\* CourseSerializer.validate_categories
ValidateCategories(value) ==
    [ends |-> \A c \in value : WalkParents(c, {c}).ends,
     categories |-> value \cup UNION {WalkParents(c, {c}).added : c \in value}]

\* course.teachers.set(value): the reverse side of Employee.courses
SetCourseTeachers(c, value) ==
    [e \in DOMAIN employees |->
        [employees[e] EXCEPT !.courses =
            IF e \in value THEN @ \cup {c} ELSE @ \ {c}]]

CourseWritten(cls, instance, course, payload, status, raising, saved) ==
    [op |-> "CourseWrite", entity |-> "course", cls |-> cls, instance |-> instance,
     id |-> course, status |-> status,
     hasCategories |-> payload.hasCategories, submitted |-> payload.categories,
     fields |-> IF instance \in DOMAIN courses
                THEN <<FieldSeen(payload.image, courses[instance].image)>>
                ELSE <<FieldSeen(payload.image, NoFile)>>,
     raising |-> raising, deleted |-> saved.deleted, put |-> saved.put]

\* POST /api/courses/
CourseCreate(payloads) ==
    \E caller \in Callers, payload \in payloads, name \in CourseNames :
        LET cls == CourseSerializerClass(caller, "create")
            data == CourseInternalValue(cls, payload)
            walk == ValidateCategories(data.categories)
            id == nextId.course
            saved == ModelSave(<<>>, <<Assigned(NoFile, data.image)>>, "course_images", {})
            written(status, sv) == CourseWritten(cls, None, IF status = 201 THEN id ELSE None,
                                                 payload, status, {}, sv)
        IN  /\ id <= MaxCourses
            /\ IF data.hasCategories /\ data.categories # {}
                  /\ data.categories \subseteq DOMAIN categories /\ ~walk.ends
               THEN /\ last' = written(Hangs, NotSaved)
                    /\ UNCHANGED <<courses, employees, store, nextId>>
               ELSE IF CourseFieldErrors(data, FALSE, cls)
               THEN /\ last' = written(400, NotSaved)
                    /\ UNCHANGED <<courses, employees, store, nextId>>
               ELSE /\ courses' = courses @@
                          (id :> [name |-> name,
                                  min_age |-> data.ages[1], max_age |-> data.ages[2],
                                  categories |-> walk.categories,
                                  image |-> saved.refs[1]])
                    /\ store' = store \cup saved.put
                    /\ employees' = IF data.hasTeachers
                                    THEN SetCourseTeachers(id, data.teachers)
                                    ELSE employees
                    /\ nextId' = [nextId EXCEPT !.course = id + 1]
                    /\ last' = written(201, saved)
            /\ UNCHANGED <<users, partners, branches, categories, lessons, inflight>>

\* PUT and PATCH /api/courses/<c>/
CourseUpdate(payloads) ==
    \E caller \in Callers, c \in CourseIds, payload \in payloads, partial \in BOOLEAN :
        LET cls == CourseSerializerClass(caller, IF partial THEN "partial_update" ELSE "update")
            data == CourseInternalValue(cls, payload)
            walk == ValidateCategories(data.categories)
            written(status, raising, sv) ==
                CourseWritten(cls, c, IF status = 404 THEN None ELSE c, payload, status,
                              raising, sv)
        IN  /\ payload.hasCategories => ~partial   \* PUT and PATCH differ only in what may be absent
            /\ IF c \notin CourseRoleScope(caller)
               THEN /\ last' = written(404, {}, NotSaved)
                    /\ UNCHANGED <<courses, employees, store>>
               ELSE IF data.hasCategories /\ data.categories # {}
                       /\ data.categories \subseteq DOMAIN categories /\ ~walk.ends
               THEN /\ last' = written(Hangs, {}, NotSaved)
                    /\ UNCHANGED <<courses, employees, store>>
               ELSE IF CourseFieldErrors(data, partial, cls)
               THEN /\ last' = written(400, {}, NotSaved)
                    /\ UNCHANGED <<courses, employees, store>>
               ELSE LET olds == <<courses[c].image>>
                        news == <<Assigned(courses[c].image, data.image)>>
                    IN  \E raising \in DeleteFailures(DeleteCalls(olds, news)) :
                        LET saved == ModelSave(olds, news, "course_images", raising)
                        IN  IF saved.raised
                            THEN \* Course.save() raised: the row and its relations are not written
                                 /\ store' = store \ saved.deleted
                                 /\ last' = written(500, raising, saved)
                                 /\ UNCHANGED <<courses, employees>>
                            ELSE /\ courses' = [courses EXCEPT
                                                   ![c].image = saved.refs[1],
                                                   ![c].min_age =
                                                       IF data.hasAges THEN data.ages[1] ELSE @,
                                                   ![c].max_age =
                                                       IF data.hasAges THEN data.ages[2] ELSE @,
                                                   ![c].categories =
                                                       IF data.hasCategories
                                                       THEN walk.categories ELSE @]
                                 /\ store' = (store \ saved.deleted) \cup saved.put
                                 /\ employees' = IF data.hasTeachers
                                                 THEN SetCourseTeachers(c, data.teachers)
                                                 ELSE employees
                                 /\ last' = written(200, raising, saved)
            /\ UNCHANGED <<users, partners, branches, categories, lessons, nextId, inflight>>

\* The payloads of the catalogue specification: categories and nothing else
CategoryPayloads ==
    CoursePayloads(SUBSET CategoryIds, {Absent}, {})

(***************************************************************************)
(* Lesson writes: LessonViewSet with LessonSerializer, and Lesson.save()   *)
(* called on a lesson whose file attributes were assigned storage names.   *)
(***************************************************************************)
LessonPayloads(presentations, additionals) ==
    {[presentation |-> p, additional_file |-> a] : p \in presentations, a \in additionals}

\* LessonViewSet.get_queryset, the role part
LessonRoleScope(caller) ==
    IF InGroup(caller, "teacher")
    THEN {l \in DOMAIN lessons :
             \E e \in DOMAIN employees : lessons[l].course \in employees[e].courses /\ e = caller}
    ELSE DOMAIN lessons

ValidatePresentationAny(value) == TRUE

\* LessonSerializer.validate_presentation
ValidatePresentation(value) ==
    ~(value.kind = "upload"
      /\ ~(EndsWith(value.name, ".pptx") \/ EndsWith(value.name, ".pdf")))

\* LessonSerializer.validate_additional_file
ValidateAdditionalFile(value) ==
    ~(value.kind = "upload"
      /\ ~(EndsWith(value.name, ".pdf") \/ EndsWith(value.name, ".zip")))

\* presentation_upload_path: the directory is the name of the lesson's course
PresentationUploadDir(l) == courses[lessons[l].course].name

LessonWritten(cls, l, payload, status, raising, saved) ==
    [op |-> "LessonWrite", entity |-> "lesson", cls |-> cls, id |-> l, status |-> status,
     fields |-> IF l \in DOMAIN lessons
                THEN <<FieldSeen(payload.presentation, lessons[l].presentation),
                       FieldSeen(payload.additional_file, lessons[l].additional_file)>>
                ELSE <<>>,
     raising |-> raising, deleted |-> saved.deleted, put |-> saved.put]

\* The stored names of the two file fields of lesson l, and the attributes
\* of the instance after the payload is assigned
LessonOlds(l) == <<lessons[l].presentation, lessons[l].additional_file>>

LessonNews(l, payload) ==
    <<Assigned(lessons[l].presentation, payload.presentation),
      Assigned(lessons[l].additional_file, payload.additional_file)>>

\* Lesson.save() of lesson l with the given values of the two file fields
LessonModelSave(l, payload, raising) ==
    ModelSave(LessonOlds(l), LessonNews(l, payload), PresentationUploadDir(l), raising)

\* PUT and PATCH /api/lessons/<l>/
LessonUpdate(payloads) ==
    \E caller \in Callers, l \in LessonIds, payload \in payloads :
        LET written(status, raising, sv) ==
                LessonWritten("LessonSerializer", l, payload, status, raising, sv)
        IN  /\ IF l \notin LessonRoleScope(caller)
               THEN /\ last' = written(404, {}, NotSaved)
                    /\ UNCHANGED <<lessons, store>>
               ELSE IF ~ValidatePresentation(payload.presentation)
                       \/ ~ValidateAdditionalFile(payload.additional_file)
               THEN /\ last' = written(400, {}, NotSaved)
                    /\ UNCHANGED <<lessons, store>>
               ELSE \E raising \in DeleteFailures(DeleteCalls(LessonOlds(l),
                                                              LessonNews(l, payload))) :
                    LET saved == LessonModelSave(l, payload, raising)
                    IN  IF saved.raised
                        THEN /\ store' = store \ saved.deleted
                             /\ last' = written(500, raising, saved)
                             /\ UNCHANGED lessons
                        ELSE /\ lessons' = [lessons EXCEPT
                                               ![l].presentation = saved.refs[1],
                                               ![l].additional_file = saved.refs[2]]
                             /\ store' = (store \ saved.deleted) \cup saved.put
                             /\ last' = written(200, raising, saved)
            /\ UNCHANGED <<users, partners, employees, branches, categories, courses, nextId, inflight>>

\* lesson.presentation = <storage name>; lesson.save(): the presentation is
\* assigned the name of a blob in the lesson's directory of the store, or
\* the name it already has.
\* There is no HTTP status: the status is None when save() returns and 500
\* when it raises.
LessonSave ==
    \E l \in DOMAIN lessons :
    \E ref \in {n \in store : n.dir = PresentationUploadDir(l)}
                  \cup {lessons[l].presentation} :
    \E raising \in DeleteFailures(DeleteCalls(LessonOlds(l),
                       LessonNews(l, [presentation |-> Reference(ref),
                                      additional_file |-> Absent]))) :
        LET payload == [presentation |-> Reference(ref), additional_file |-> Absent]
            saved == LessonModelSave(l, payload, raising)
        IN  /\ HasFile(ref)
            /\ IF saved.raised
               THEN /\ store' = store \ saved.deleted
                    /\ last' = LessonWritten("Lesson", l, payload, 500, raising, saved)
                    /\ UNCHANGED lessons
               ELSE /\ lessons' = [lessons EXCEPT
                                      ![l].presentation = saved.refs[1],
                                      ![l].additional_file = saved.refs[2]]
                    /\ store' = (store \ saved.deleted) \cup saved.put
                    /\ last' = LessonWritten("Lesson", l, payload, None, raising, saved)
            /\ UNCHANGED <<users, partners, employees, branches, categories, courses, nextId, inflight>>

(***************************************************************************)
(* User writes: UserViewSet with UserSerializer.                           *)
(***************************************************************************)
\* UserSerializer.GroupChoices
GroupChoices == {"teacher", "owner"}

\* str.lower for the addresses of the model: the addresses written with a
\* capital letter and what they lower to; every other address is lower-case
LowerCase ==
    ("OWNER1@gmail.com" :> "owner1@gmail.com") @@ ("New@gmail.com" :> "new@gmail.com")

Lower(email) == IF email \in DOMAIN LowerCase THEN LowerCase[email] ELSE email

\* The address of a created user whose payload is not about emails: one no
\* other user has
FreshEmail(id) == "user" \o ToString(id) \o "@gmail.com"

\* Payloads over the given values of group ("" for no group key), image and
\* email ("" for no email key)
UserPayloadsWithEmail(groups, images, emails) ==
    {[hasGroup |-> g # "", group |-> g, image |-> im, hasEmail |-> em # "", email |-> em] :
        g \in groups, im \in images, em \in {""} \cup emails}

\* Payloads that are not about the email
UserPayloads(groups, images) == UserPayloadsWithEmail(groups, images, {})

\* CustomUserManager._create_user: email = email.lower()
ManagerEmail(email) == Lower(email)

UpdateEmailAsGiven(stored, payload) ==
    IF payload.hasEmail /\ Lower(payload.email) # Lower(stored) THEN payload.email
    ELSE stored

\* UserSerializer.update, the email part: an email that equals the stored
\* one up to case is dropped from the data, any other is stored in lower case
UpdateEmail(stored, payload) ==
    IF payload.hasEmail /\ Lower(payload.email) # Lower(stored) THEN Lower(payload.email)
    ELSE stored

\* The unique index of User.email: another row has this very address
EmailTaken(email, u) ==
    \E v \in DOMAIN users \ {u} : users[v].email = email

\* The rows a request leaves when it ends in an exception after writing
\* some: its writes are in one transaction, which is rolled back
RolledBack(before, written) == before

\* The group field: a ChoiceField, required unless the update is partial
UserFieldErrorsAnyGroup(payload, partial) == ~payload.hasGroup /\ ~partial

\* Field validation: group is required (not on a partial update) and is a
\* ChoiceField over GroupChoices
UserFieldErrors(payload, partial) ==
    \/ ~payload.hasGroup /\ ~partial
    \/ payload.hasGroup /\ payload.group \notin GroupChoices

UserWritten(u, id, payload, status, raising, saved) ==
    [op |-> "UserWrite", entity |-> "user", cls |-> "UserSerializer", instance |-> u,
     id |-> id, status |-> status,
     hasGroup |-> payload.hasGroup, group |-> payload.group,
     hasEmail |-> payload.hasEmail, email |-> payload.email,
     groupsBefore |-> IF u \in DOMAIN users THEN users[u].groups ELSE {},
     fields |-> <<FieldSeen(payload.image,
                            IF u \in DOMAIN users THEN users[u].image ELSE NoFile)>>,
     raising |-> raising, deleted |-> saved.deleted, put |-> saved.put]

UpdateGroupsAdds(groups, payload) ==
    IF payload.hasGroup THEN groups \cup {payload.group} ELSE groups

\* UserSerializer.update, the group part: groups.clear() then groups.add()
UpdateGroups(groups, payload) ==
    IF payload.hasGroup THEN {payload.group} ELSE groups

\* POST /api/users/: UserSerializer.create.  create_user sets is_superuser
\* to False (the serializer's is_superuser is read-only, and the group
\* cannot be "superuser" once the field is valid).  The serializer runs no
\* uniqueness check (UniqueFieldsMixin takes the validator off the field and
\* create() does not run it), so a taken address fails at the INSERT, after
\* pre_save has put the file in the store.  Whether the failed INSERT used
\* up an id is up to the database.
UserCreate(payloads) ==
    \E payload \in payloads :
        LET id == nextId.user
            email == IF payload.hasEmail THEN ManagerEmail(payload.email) ELSE FreshEmail(id)
            saved == ModelSave(<<>>, <<Assigned(NoFile, payload.image)>>, "user_images", {})
        IN  /\ id <= MaxUsers
            /\ IF UserFieldErrors(payload, FALSE)
               THEN /\ last' = UserWritten(None, None, payload, 400, {}, NotSaved)
                    /\ UNCHANGED <<users, store, nextId>>
               ELSE IF EmailTaken(email, None)
               THEN /\ last' = UserWritten(None, None, payload, 500, {}, saved)
                    /\ store' = store \cup saved.put
                    /\ nextId' \in {nextId, [nextId EXCEPT !.user = id + 1]}
                    /\ UNCHANGED users
               ELSE /\ users' = users @@
                          (id :> [email |-> email,
                                  groups |-> {payload.group},
                                  is_superuser |-> payload.group = "superuser",
                                  image |-> saved.refs[1]])
                    /\ store' = store \cup saved.put
                    /\ nextId' = [nextId EXCEPT !.user = id + 1]
                    /\ last' = UserWritten(None, id, payload, 201, {}, saved)
            /\ UNCHANGED <<partners, employees, branches, catalogue, inflight>>

\* PUT and PATCH /api/users/<u>/: UserSerializer.update.  The groups are
\* written before instance.save(); when save() raises, the request ends in
\* an exception and they are rolled back with it.  What save() did to the
\* store by then stays done.
UserUpdate(targets, payloads) ==
    \E u \in targets, payload \in payloads, partial \in BOOLEAN :
        LET written(status, raising, sv) ==
                UserWritten(u, IF status = 404 THEN None ELSE u, payload, status, raising, sv)
        IN  /\ payload.hasGroup => ~partial   \* PUT and PATCH differ only in what may be absent
            /\ IF u \notin DOMAIN users
               THEN /\ last' = written(404, {}, NotSaved)
                    /\ UNCHANGED <<users, store>>
               ELSE IF UserFieldErrors(payload, partial)
               THEN /\ last' = written(400, {}, NotSaved)
                    /\ UNCHANGED <<users, store>>
               ELSE LET olds == <<users[u].image>>
                        news == <<Assigned(users[u].image, payload.image)>>
                    IN  \E raising \in DeleteFailures(DeleteCalls(olds, news)) :
                        LET saved == ModelSave(olds, news, "user_images", raising)
                        IN  IF saved.raised
                            THEN /\ users' = RolledBack(users,
                                                 [users EXCEPT ![u].groups =
                                                     UpdateGroups(@, payload)])
                                 /\ store' = store \ saved.deleted
                                 /\ last' = written(500, raising, saved)
                            ELSE IF EmailTaken(UpdateEmail(users[u].email, payload), u)
                            THEN \* the UPDATE violates the unique index of email
                                 /\ users' = RolledBack(users,
                                                 [users EXCEPT ![u].groups =
                                                     UpdateGroups(@, payload)])
                                 /\ store' = (store \ saved.deleted) \cup saved.put
                                 /\ last' = written(500, raising, saved)
                            ELSE /\ users' = [users EXCEPT
                                                 ![u].email = UpdateEmail(@, payload),
                                                 ![u].groups = UpdateGroups(@, payload),
                                                 ![u].is_superuser =
                                                     IF payload.hasGroup
                                                        /\ payload.group = "superuser"
                                                     THEN TRUE ELSE @,
                                                 ![u].image = saved.refs[1]]
                                 /\ store' = (store \ saved.deleted) \cup saved.put
                                 /\ last' = written(200, raising, saved)
            /\ UNCHANGED <<partners, employees, branches, catalogue, nextId, inflight>>

(***************************************************************************)
(* Deleting rows with file fields: the delete() methods of Course, Lesson  *)
(* and User, called by the destroy action of their viewsets.               *)
(***************************************************************************)
\* The names of the file fields that have a file, in the order given
NamesToDelete(refs) ==
    Flatten([i \in DOMAIN refs |-> IF HasFile(refs[i]) THEN <<refs[i]>> ELSE <<>>])

DeletePropagates(names, raising) == RunDeletes(names, raising)

\* delete(): each default_storage.delete is in its own try/except Exception,
\* so a failure is printed and the next statement runs
DeleteCaught(names, raising) ==
    [deleted |-> {n \in Range(names) : n \notin raising}, raised |-> FALSE]

Destroyed(entity, id, status, names, raising, deleted) ==
    [op |-> "Destroy", entity |-> entity, id |-> id, status |-> status,
     names |-> Range(names), raising |-> raising, deleted |-> deleted]

\* DELETE /api/courses/<c>/: the lessons of the course are deleted by the
\* cascade of Lesson.course, which does not call Lesson.delete
CourseDestroy ==
    \E caller \in Callers, c \in CourseIds :
        /\ IF c \notin CourseRoleScope(caller)
           THEN /\ last' = Destroyed("course", c, 404, <<>>, {}, {})
                /\ UNCHANGED <<courses, lessons, employees, store>>
           ELSE \E raising \in DeleteFailures(NamesToDelete(<<courses[c].image>>)) :
                LET names == NamesToDelete(<<courses[c].image>>)
                    run == DeleteCaught(names, raising)
                IN  IF run.raised
                    THEN /\ store' = store \ run.deleted
                         /\ last' = Destroyed("course", c, 500, names, raising, run.deleted)
                         /\ UNCHANGED <<courses, lessons, employees>>
                    ELSE /\ courses' = [x \in DOMAIN courses \ {c} |-> courses[x]]
                         /\ lessons' = [l \in {x \in DOMAIN lessons : lessons[x].course # c}
                                           |-> lessons[l]]
                         /\ employees' = [e \in DOMAIN employees |->
                                             [employees[e] EXCEPT !.courses = @ \ {c}]]
                         /\ store' = store \ run.deleted
                         /\ last' = Destroyed("course", c, 204, names, raising, run.deleted)
        /\ UNCHANGED <<users, partners, branches, categories, nextId, inflight>>

\* DELETE /api/lessons/<l>/
LessonDestroy ==
    \E caller \in Callers, l \in LessonIds :
        /\ IF l \notin LessonRoleScope(caller)
           THEN /\ last' = Destroyed("lesson", l, 404, <<>>, {}, {})
                /\ UNCHANGED <<lessons, store>>
           ELSE \E raising \in DeleteFailures(NamesToDelete(LessonOlds(l))) :
                LET names == NamesToDelete(LessonOlds(l))
                    run == DeleteCaught(names, raising)
                IN  IF run.raised
                    THEN /\ store' = store \ run.deleted
                         /\ last' = Destroyed("lesson", l, 500, names, raising, run.deleted)
                         /\ UNCHANGED lessons
                    ELSE /\ lessons' = [x \in DOMAIN lessons \ {l} |-> lessons[x]]
                         /\ store' = store \ run.deleted
                         /\ last' = Destroyed("lesson", l, 204, names, raising, run.deleted)
        /\ UNCHANGED <<users, partners, employees, branches, categories, courses, nextId, inflight>>

\* DELETE /api/users/<u>/: Employee.user is on_delete=CASCADE, Partner.owner
\* is on_delete=SET_NULL
UserDestroy ==
    \E u \in UserIds :
        /\ IF u \notin DOMAIN users
           THEN /\ last' = Destroyed("user", u, 404, <<>>, {}, {})
                /\ UNCHANGED <<users, employees, partners, store>>
           ELSE \E raising \in DeleteFailures(NamesToDelete(<<users[u].image>>)) :
                LET names == NamesToDelete(<<users[u].image>>)
                    run == DeleteCaught(names, raising)
                IN  IF run.raised
                    THEN /\ store' = store \ run.deleted
                         /\ last' = Destroyed("user", u, 500, names, raising, run.deleted)
                         /\ UNCHANGED <<users, employees, partners>>
                    ELSE /\ users' = [x \in DOMAIN users \ {u} |-> users[x]]
                         /\ employees' = [e \in DOMAIN employees \ {u} |-> employees[e]]
                         /\ partners' = [p \in DOMAIN partners |->
                                            [partners[p] EXCEPT !.owner =
                                                IF @ = u THEN None ELSE @]]
                         /\ store' = store \ run.deleted
                         /\ last' = Destroyed("user", u, 204, names, raising, run.deleted)
        /\ UNCHANGED <<branches, catalogue, nextId, inflight>>

NextScope ==
    \/ ListPartners
    \/ ListEmployees
    \/ ListBranches
    \/ BranchUpdate
    \/ PartnerDestroy

SpecScope == Init /\ [][NextScope]_vars

NextBranch ==
    \/ BranchCreate
    \/ BranchUpdate
    \/ PartnerDestroy

SpecBranch == Init /\ [][NextBranch]_vars

NextPartner ==
    \/ PartnerCreate
    \/ PartnerUpdate
    \/ PartnerDestroy

SpecPartner == Init /\ [][NextPartner]_vars

NextCatalog ==
    \/ CategoryCreate
    \/ CourseCreate(CategoryPayloads)
    \/ CourseUpdate(CategoryPayloads)

SpecCatalog == Init /\ [][NextCatalog]_vars

\* The payloads of the attachment specification: the file fields, with the
\* other fields absent
ImagePayloads == CoursePayloads({}, FieldInputs(ImageNames), {})

PresentationPayloads ==
    LessonPayloads(FieldInputs({"p.pptx", "q.pdf"}), {Absent})

UserImagePayloads == UserPayloads({""}, FieldInputs(ImageNames))

\* The users it writes: one with an image, and an id that names no user
ImageUsers == {4, MaxUsers}

NextAttach ==
    \/ CourseUpdate(ImagePayloads)
    \/ LessonUpdate(PresentationPayloads)
    \/ UserUpdate(ImageUsers, UserImagePayloads)

SpecAttach == Init /\ [][NextAttach]_vars

\* The payloads of the lesson specification: both file fields
LessonFilePayloads ==
    LessonPayloads(FieldInputs(LessonFileNames), FieldInputs(LessonFileNames))

NextLesson ==
    \/ LessonUpdate(LessonFilePayloads)
    \/ LessonSave

SpecLesson == Init /\ [][NextLesson]_vars

NextRemove ==
    \/ CourseDestroy
    \/ LessonDestroy
    \/ UserDestroy

SpecRemove == Init /\ [][NextRemove]_vars

\* Users created and regrouped through the serializer: every value a client
\* can send for group, no file
GroupPayloads == UserPayloads({"", "teacher", "owner", "superuser"}, {Absent})

NextUser ==
    \/ UserCreate(GroupPayloads)
    \/ UserUpdate(UserIds, GroupPayloads)

SpecUser == Init /\ [][NextUser]_vars

(***************************************************************************)
(* Properties of the listings and of the partner and branch writes.        *)
(***************************************************************************)
\* The partner a teacher works for, the partner an owner owns
OwnPartner(u) ==
    IF InGroup(u, "teacher") THEN employees[u].partner ELSE OwnedPartner(u)

\* The partner a listed row belongs to
RowPartner(kind, r) ==
    IF kind = "partners" THEN r
    ELSE IF kind = "employees" THEN employees[r].partner
    ELSE branches[r].partner

\* C1: for a caller in the teacher or owner group and every combination of
\* filters, every row a partner, employee or branch listing returns belongs
\* to the caller's own partner; a partner_id filter naming another partner
\* returns nothing.
C1_ListingWithinOwnPartner ==
    (last.op = "list" /\ (InGroup(last.caller, "teacher") \/ InGroup(last.caller, "owner")))
    => /\ \A r \in last.rows : RowPartner(last.kind, r) = OwnPartner(last.caller)
       /\ (last.partner_id # None /\ last.rows # {})
              => last.partner_id = OwnPartner(last.caller)

\* An owner asked for the employees of another partner, which has employees,
\* and got an empty page
C1_Witness ==
    /\ last.op = "list"
    /\ last.kind = "employees"
    /\ last.status = 200
    /\ InGroup(last.caller, "owner")
    /\ OwnedPartners(last.caller) # {}
    /\ last.partner_id \in DOMAIN partners
    /\ last.partner_id # OwnedPartner(last.caller)
    /\ \E e \in DOMAIN employees : employees[e].partner = last.partner_id
    /\ last.rows = {}

\* C3: a branch write that submits employees stores none of the submitted
\* employees whose partner differs from the branch's partner, and the only
\* validation error it can end in is the one about the partner field (a
\* missing or unknown partner): a foreign employee raises none.
C3_BranchDropsForeignEmployees ==
    (last.op = "BranchWrite" /\ last.hasEmployees)
    => /\ last.status \in {200, 201}
              => \A e \in last.submitted :
                     employees[e].partner # branches[last.branch].partner
                         => last.branch \notin employees[e].branches
       /\ last.status = 400
              => last.partnerField = None \/ last.partnerField \notin DOMAIN partners \cup {-1}

\* A branch was written with an employee of another partner in the payload
C3_Witness ==
    /\ last.op = "BranchWrite"
    /\ last.status \in {200, 201}
    /\ \E e \in last.submitted : employees[e].partner # branches[last.branch].partner
    /\ \E e \in last.submitted : last.branch \in employees[e].branches

\* The named identity already owns a partner other than the one written
OwnsAnotherPartner ==
    \E p \in DOMAIN last.before : p # last.instance /\ last.before[p].owner = last.owner

\* C4 as stated: a partner write that names an owner fails with a validation
\* error and changes nothing unless the identity is in the owner group, and
\* is accepted when it is.
C4_AsStated ==
    (last.op = "PartnerWrite" /\ last.hasOwner /\ last.owner \in DOMAIN users
        /\ last.status # 404)
    => IF InGroup(last.owner, "owner")
       THEN last.status \in {200, 201}
       ELSE last.status = 400 /\ partners = last.before

\* C4 (amended): a partner write that names an owner fails with a validation
\* error and changes nothing unless the identity is in the owner group; when
\* it is, the write is accepted if the identity owns no other partner, and
\* fails with a validation error, changing nothing, if it does.
C4_OwnerMustBeInOwnerGroup ==
    (last.op = "PartnerWrite" /\ last.hasOwner /\ last.owner \in DOMAIN users
        /\ last.status # 404)
    => IF InGroup(last.owner, "owner") /\ ~OwnsAnotherPartner
       THEN /\ last.status \in {200, 201}
            /\ partners[last.partner].owner = last.owner
       ELSE last.status = 400 /\ partners = last.before

\* An owner-group identity that owned no partner was named and now owns the
\* partner written
C4_Witness ==
    /\ last.op = "PartnerWrite"
    /\ last.hasOwner
    /\ last.owner \in DOMAIN users
    /\ InGroup(last.owner, "owner")
    /\ \A p \in DOMAIN last.before : last.before[p].owner # last.owner
    /\ last.status \in {200, 201}
    /\ partners[last.partner].owner = last.owner

(***************************************************************************)
(* Properties of the catalogue.                                            *)
(***************************************************************************)
\* The category n steps up from c along parent, None past a root
RECURSIVE NthParent(_, _)
NthParent(c, n) ==
    IF n = 0 \/ c = None THEN c ELSE NthParent(categories[c].parent, n - 1)

\* The ancestors of c: its parent, the parent's parent, and so on
Ancestors(c) ==
    {NthParent(c, n) : n \in 1..Cardinality(DOMAIN categories)} \ {None}

\* C2: after a course create or update through CourseSerializer that
\* submitted categories, the stored category set of the course is the
\* closure of the submitted set under parent: the submitted categories and
\* every ancestor of each, and nothing else (the stored relation is a set,
\* so no category is in it twice).
C2_StoredCategoriesAreClosure ==
    (last.op = "CourseWrite" /\ last.cls = "CourseSerializer" /\ last.hasCategories
        /\ last.status \in {200, 201})
    => courses[last.id].categories =
           last.submitted \cup UNION {Ancestors(c) : c \in last.submitted}

\* A course was written with one category whose parent has a parent, and
\* both ancestors were stored with it
C2_Witness ==
    /\ last.op = "CourseWrite"
    /\ last.cls = "CourseSerializer"
    /\ last.status \in {200, 201}
    /\ \E c \in DOMAIN categories :
          /\ last.submitted = {c}
          /\ Cardinality(Ancestors(c)) = 2
          /\ courses[last.id].categories = {c} \cup Ancestors(c)

(***************************************************************************)
(* File attachments                                                        *)
(***************************************************************************)
\* The file references a row stores, in the order of the request's fields
StoredRefs(entity, id) ==
    IF entity = "course" THEN <<courses[id].image>>
    ELSE IF entity = "lesson" THEN <<lessons[id].presentation, lessons[id].additional_file>>
    ELSE <<users[id].image>>

\* The directory an upload to the row is stored in
UploadDir(entity, id) ==
    IF entity = "course" THEN "course_images"
    ELSE IF entity = "lesson" THEN PresentationUploadDir(id)
    ELSE "user_images"

\* The last request was an update, through a serializer that writes the file
\* fields, of a row that exists
FileUpdate ==
    /\ last.op \in {"CourseWrite", "LessonWrite", "UserWrite"}
    /\ last.cls \in {"CourseSerializer", "LessonSerializer", "UserSerializer"}
    /\ last.status # 404

\* The positions of the file fields of the last request
FileFields ==
    IF last.op \in {"CourseWrite", "LessonWrite", "UserWrite"} THEN DOMAIN last.fields ELSE {}

\* C5 as the specification states it: an update that completes and submits
\* no value (the field absent, or null) for a file field holding attachment A
\* leaves the row's reference to A as it was, and A in the store.
C5_AsStated ==
    \A i \in FileFields :
        (FileUpdate /\ last.status = 200 /\ last.fields[i].held
            /\ last.fields[i].kind \in {"absent", "null"})
        => /\ StoredRefs(last.entity, last.id)[i] = last.fields[i].old
           /\ last.fields[i].old \in store

\* C6: an update that completes and uploads a file B to a field holding
\* attachment A deletes A's blob from the store, stores B under the field's
\* upload directory, and leaves the row referencing B.
C6_ReplacementDeletesOldBlob ==
    \A i \in FileFields :
        (FileUpdate /\ last.status = 200 /\ last.fields[i].held
            /\ last.fields[i].kind = "upload")
        => LET new == StorageName(UploadDir(last.entity, last.id), last.fields[i].name)
           IN  /\ last.fields[i].old \in last.deleted
               /\ last.fields[i].old \in store => last.fields[i].old \in last.put
               /\ new \in last.put
               /\ new \in store
               /\ StoredRefs(last.entity, last.id)[i] = new

C6_Witness ==
    \E i \in FileFields :
        /\ FileUpdate /\ last.status = 200 /\ last.fields[i].held
        /\ last.fields[i].kind = "upload"
        /\ last.fields[i].old \notin store
        /\ StoredRefs(last.entity, last.id)[i]
               = StorageName(UploadDir(last.entity, last.id), last.fields[i].name)
        /\ StoredRefs(last.entity, last.id)[i] \in store

\* The last request saved a lesson with its presentation set to the storage
\* name the lesson already referenced
SameReferenceSave ==
    /\ last.op = "LessonWrite" /\ last.cls = "Lesson"
    /\ last.fields[1].kind = "reference"
    /\ StorageName(last.fields[1].dir, last.fields[1].name) = last.fields[1].old

\* C7: saving a lesson whose presentation is set to the reference it already
\* holds returns, deletes no blob, uploads nothing, and leaves the reference
\* and its blob as they were.
C7_SameReferenceDeletesNothing ==
    SameReferenceSave
    => /\ last.status = None
       /\ last.deleted = {}
       /\ last.put = {}
       /\ lessons[last.id].presentation = last.fields[1].old
       /\ last.fields[1].held => last.fields[1].old \in store

C7_Witness ==
    /\ SameReferenceSave
    /\ last.fields[1].held
    /\ lessons[last.id].presentation = last.fields[1].old
    /\ last.fields[1].old \in store

\* The row the last request addressed is still stored
RowExists(entity, id) ==
    IF entity = "course" THEN id \in DOMAIN courses
    ELSE IF entity = "lesson" THEN id \in DOMAIN lessons
    ELSE id \in DOMAIN users

C9_AsStated ==
    \A i \in FileFields :
        (FileUpdate /\ last.fields[i].held /\ last.fields[i].kind = "upload"
            /\ last.fields[i].old \in last.raising)
        => /\ last.status = 200
           /\ StoredRefs(last.entity, last.id)[i]
                  = StorageName(UploadDir(last.entity, last.id), last.fields[i].name)

(***************************************************************************)
(* Groups of users                                                         *)
(***************************************************************************)
\* The users created by POST /api/users/
CreatedUsers == DOMAIN users \ DOMAIN FixtureUsers

C11_AsStated ==
    (last.op = "UserWrite" /\ last.instance = None /\ last.hasGroup
        /\ last.group = "superuser")
    => /\ last.status = 201
       /\ users[last.id].is_superuser

(***************************************************************************)
(* Tokens in cookies: CustomTokenObtainPairView, CustomTokenRefreshView.   *)
(* A token is a signed JWT, so the server keeps no token state: a token is *)
(* its claims, whether its signature verifies and whether it has expired   *)
(* when it is presented.                                                   *)
(***************************************************************************)
\* The accounts that log in: the owner and the teacher of partner 1
LoginUsers == {2, 4}

Token(type, user, signed, expired) ==
    [type |-> type, user |-> user, signed |-> signed, expired |-> expired]

\* An absent cookie or body key
NoToken == Token("", None, FALSE, FALSE)

\* What a client can send as a token: any claims, forged or genuine, fresh or
\* expired, or nothing
Tokens ==
    {Token(t, u, s, e) : t \in {"access", "refresh"}, u \in LoginUsers,
                         s \in BOOLEAN, e \in BOOLEAN}
        \cup {NoToken}

\* RefreshToken.for_user(user), AccessToken: freshly signed
NewToken(type, user) == Token(type, user, TRUE, FALSE)

\* self.token_class(attrs["refresh"]): decodes, verifies the signature, the
\* expiry and the token type
VerifiesAlways(token, type) == TRUE

Verifies(token, type) ==
    /\ token.signed
    /\ ~token.expired
    /\ token.type = type

\* {email, password} of POST /auth/token/
Credentials ==
    {[email |-> e, user |-> u, password |-> p] :
        e \in {"known", "unknown", "absent"}, u \in LoginUsers,
        p \in {"right", "wrong", "absent"}}

\* response.set_cookie(key, value, httponly, secure, samesite, expires, path)
Cookie(value, lifetime, path) ==
    [value |-> value, httponly |-> TRUE, samesite |-> "None",
     expires |-> lifetime, path |-> path]

\* No Set-Cookie header of that name
NoCookie == Cookie(NoToken, "", "")

\* The body the view leaves on a successful response
DetailBodyWithTokens(tokens) == [detail |-> "Tokens set in cookies", tokens |-> tokens]

DetailBody(tokens) == [detail |-> "Tokens set in cookies", tokens |-> {}]

\* The body of an error response
ErrorBody == [detail |-> "error", tokens |-> {}]

Responded(op, request, status, body, access, refresh) ==
    [op |-> op, request |-> request, status |-> status, body |-> body,
     access_token |-> access, refresh_token |-> refresh]

\* CustomTokenObtainPairView.post.  super().post() raises before any cookie
\* is set: 400 when a field is missing, 401 when authenticate() finds no
\* active account for the email and password.
ObtainResponse(c) ==
    IF c.email = "absent" \/ c.password = "absent"
    THEN Responded("TokenObtain", c, 400, ErrorBody, NoCookie, NoCookie)
    ELSE IF c.email # "known" \/ c.user \notin DOMAIN users \/ c.password # "right"
    THEN Responded("TokenObtain", c, 401, ErrorBody, NoCookie, NoCookie)
    ELSE LET access == NewToken("access", c.user)
             refresh == NewToken("refresh", c.user)
         IN  Responded("TokenObtain", c, 200, DetailBody({access, refresh}),
                       Cookie(access, "ACCESS_TOKEN_LIFETIME", "/api"),
                       Cookie(refresh, "REFRESH_TOKEN_LIFETIME", "/auth"))

TokenObtainPost ==
    \E c \in Credentials :
        /\ last' = ObtainResponse(c)
        /\ UNCHANGED <<users, partners, employees, branches, catalogue, store, nextId, inflight>>

\* data = {'refresh': request.COOKIES.get('refresh_token')};
\* request._full_data = data: the serializer never sees the request body
RefreshDataBodyFirst(cookie, body) == IF body # NoToken THEN body ELSE cookie

RefreshData(cookie, body) == cookie

\* CustomTokenRefreshView.post
RefreshResponse(cookie, body) ==
    LET request == [cookie |-> cookie, body |-> body]
        refresh == RefreshData(cookie, body)
    IN  IF cookie = NoToken   \* raise InvalidToken("No refresh token provided")
        THEN Responded("TokenRefresh", request, 401, ErrorBody, NoCookie, NoCookie)
        ELSE IF ~Verifies(refresh, "refresh")   \* TokenError -> InvalidToken
        THEN Responded("TokenRefresh", request, 401, ErrorBody, NoCookie, NoCookie)
        ELSE LET access == NewToken("access", refresh.user)
             IN  Responded("TokenRefresh", request, 200, DetailBody({access}),
                           Cookie(access, "ACCESS_TOKEN_LIFETIME", "/api"), NoCookie)

TokenRefreshPost ==
    \E cookie \in Tokens, body \in Tokens :
        /\ last' = RefreshResponse(cookie, body)
        /\ UNCHANGED <<users, partners, employees, branches, catalogue, store, nextId, inflight>>

NextToken ==
    \/ TokenObtainPost
    \/ TokenRefreshPost

SpecToken == Init /\ [][NextToken]_vars

\* The tokens a response body gives away
BodyTokens(response) == response.body.tokens

\* C12: POST /auth/token/ with the email and password of an account answers
\* 200 with the detail body, which holds no token, an access_token cookie of
\* path /api and a refresh_token cookie of path /auth, each holding a fresh
\* token of its type for that account; with an unknown email or a wrong
\* password it answers 401, and every failure sets neither cookie.
C12_ObtainSetsCookiesOnly ==
    last.op = "TokenObtain"
    => LET c == last.request
           valid == c.email = "known" /\ c.password = "right"
           bad == c.email # "absent" /\ c.password # "absent" /\ ~valid
       IN  /\ valid => /\ last.status = 200
                       /\ BodyTokens(last) = {}
                       /\ last.body.detail = "Tokens set in cookies"
                       /\ last.access_token.path = "/api"
                       /\ last.access_token.value = NewToken("access", c.user)
                       /\ last.refresh_token.path = "/auth"
                       /\ last.refresh_token.value = NewToken("refresh", c.user)
           /\ bad => last.status = 401
           /\ last.status # 200
                  => last.access_token = NoCookie /\ last.refresh_token = NoCookie

C12_Witness ==
    /\ last.op = "TokenObtain"
    /\ last.status = 200
    /\ last.request.user = 2
    /\ last.access_token.path = "/api"
    /\ last.refresh_token.path = "/auth"
    /\ BodyTokens(last) = {}

\* What the client receives
Outcome(response) ==
    [status |-> response.status, body |-> response.body,
     access_token |-> response.access_token, refresh_token |-> response.refresh_token]

\* C13: the outcome of POST /auth/token/refresh/ is the outcome the same
\* refresh_token cookie has with every other request body, a body holding a
\* valid refresh token included; without the cookie the request is rejected
\* with 401 whatever the body holds.
C13_RefreshIgnoresBody ==
    last.op = "TokenRefresh"
    => /\ \A body \in Tokens :
              Outcome(RefreshResponse(last.request.cookie, body)) = Outcome(last)
       /\ last.request.cookie = NoToken
              => /\ last.status = 401
                 /\ last.access_token = NoCookie

C13_Witness ==
    /\ last.op = "TokenRefresh"
    /\ last.request.cookie = NoToken
    /\ last.request.body = NewToken("refresh", 4)
    /\ last.status = 401
    /\ Outcome(RefreshResponse(NewToken("refresh", 2), last.request.body))
           = Outcome(RefreshResponse(NewToken("refresh", 2), NoToken))

\* C14: POST /auth/token/refresh/ whose refresh_token cookie is missing,
\* forged, expired or not a refresh token answers 401 and sets no cookie;
\* with a genuine unexpired refresh token in the cookie it answers 200, sets
\* a fresh access_token cookie of path /api for the token's user and sets no
\* refresh_token cookie.
C14_RefreshRotatesAccessOnly ==
    last.op = "TokenRefresh"
    => LET cookie == last.request.cookie
       IN  IF cookie = NoToken \/ ~cookie.signed \/ cookie.expired \/ cookie.type # "refresh"
           THEN /\ last.status = 401
                /\ last.access_token = NoCookie
                /\ last.refresh_token = NoCookie
           ELSE /\ last.status = 200
                /\ last.access_token = Cookie(NewToken("access", cookie.user),
                                              "ACCESS_TOKEN_LIFETIME", "/api")
                /\ last.refresh_token = NoCookie
                /\ BodyTokens(last) = {}

C14_Witness ==
    /\ last.op = "TokenRefresh"
    /\ last.request.cookie = NewToken("refresh", 4)
    /\ last.status = 200
    /\ last.access_token.value = NewToken("access", 4)
    /\ last.access_token.path = "/api"
    /\ last.refresh_token = NoCookie

(***************************************************************************)
(* The lookup of the caller's group: GroupPermissionsView.                 *)
(***************************************************************************)
\* The codenames fill_groups gives to each group; the superuser group gets
\* none (is_superuser grants every permission without them)
GroupPermissionCodenames ==
    [g \in GroupNames |->
        IF g = "owner"
        THEN {"view_course", "change_course", "view_lesson", "view_category",
              "view_partner", "change_partner",
              "add_branch", "view_branch", "change_branch", "delete_branch",
              "add_employee", "view_employee", "change_employee", "delete_employee"}
        ELSE IF g = "teacher"
        THEN {"view_course", "view_lesson", "view_category", "view_employee",
              "view_branch", "view_partner"}
        ELSE {}]

\* request.user.groups.first(), of a user that is in a group
FirstGroup(u) == CHOOSE g \in users[u].groups : TRUE

LookedUp(caller, status, group_name, permissions, partner_id) ==
    [op |-> "GroupPermissions", caller |-> caller, status |-> status,
     group_name |-> group_name, permissions |-> permissions, partner_id |-> partner_id]

\* GET /api/user-group-permissions/: GroupPermissionsView.get.
\* request.user.owned_partner and request.user.employee raise
\* RelatedObjectDoesNotExist when the row is missing; nothing catches it.
GroupPermissionsGet ==
    \E caller \in DOMAIN users :
        /\ last' =
               IF users[caller].groups = {}
               THEN LookedUp(caller, 404, "", {}, None)
               ELSE LET g == FirstGroup(caller)
                    IN  IF g = "owner" /\ OwnedPartners(caller) = {}
                        THEN LookedUp(caller, 500, "", {}, None)
                        ELSE IF g = "teacher" /\ ~HasEmployee(caller)
                        THEN LookedUp(caller, 500, "", {}, None)
                        ELSE LookedUp(caller, 200, g, GroupPermissionCodenames[g],
                                      IF g = "owner" THEN OwnedPartner(caller)
                                      ELSE IF g = "teacher" THEN employees[caller].partner
                                      ELSE None)
        /\ UNCHANGED <<users, partners, employees, branches, catalogue, store, nextId, inflight>>

NextLookup ==
    \/ UserCreate(GroupPayloads)
    \/ PartnerUpdate
    \/ PartnerDestroy
    \/ GroupPermissionsGet

SpecLookup == Init /\ [][NextLookup]_vars

\* C15 as the specification states it: for every caller the lookup answers
\* 404 when the caller is in no group and otherwise 200 with the caller's
\* group, that group's codenames and the partner id (the owned partner of an
\* owner, the employer of a teacher, null for a superuser); never a server
\* error.
C15_AsStated ==
    last.op = "GroupPermissions"
    => LET u == last.caller
       IN  /\ last.status # 500
           /\ users[u].groups = {} => last.status = 404
           /\ users[u].groups # {}
                  => /\ last.status = 200
                     /\ last.group_name \in users[u].groups
                     /\ last.permissions = GroupPermissionCodenames[last.group_name]
                     /\ last.partner_id =
                            IF last.group_name = "owner" THEN OwnedPartner(u)
                            ELSE IF last.group_name = "teacher" THEN employees[u].partner
                            ELSE None

(***************************************************************************)
(* Listing courses by age: CourseViewSet.get_queryset with ?age=.          *)
(***************************************************************************)
\* The age query parameter: not given, or the digits of a number (a
\* non-empty string, so `if age:` holds for 0 too)
QueryAges == {[given |-> FALSE, value |-> 0]}
                 \cup {[given |-> TRUE, value |-> a] : a \in 0..(MaxAge + 1)}

AgeMatchesMinOnly(c, age) == courses[c].min_age <= age

\* Q(min_age__lte=age) & Q(max_age__gte=age)
AgeMatches(c, age) == courses[c].min_age <= age /\ courses[c].max_age >= age

\* order_by('id'): the rows in ascending id order
RECURSIVE OrderById(_)
OrderById(rows) ==
    IF rows = {} THEN <<>>
    ELSE LET first == CHOOSE r \in rows : \A other \in rows : r <= other
         IN  <<first>> \o OrderById(rows \ {first})

\* CourseViewSet.get_queryset with no other query parameter than age
CourseGetQueryset(caller, age) ==
    OrderById(IF age.given
              THEN {c \in CourseRoleScope(caller) : AgeMatches(c, age.value)}
              ELSE CourseRoleScope(caller))

\* GET /api/courses/?age=a
ListCourses ==
    \E caller \in Callers, age \in QueryAges :
        /\ last' = [op |-> "ListCourses", caller |-> caller, age |-> age,
                    rows |-> CourseGetQueryset(caller, age)]
        /\ UNCHANGED <<users, partners, employees, branches, catalogue, store, nextId, inflight>>

\* Courses of the extreme age ranges, the empty one (min above max)
\* included, linked to the teacher
AgePayloads ==
    CoursePayloadsWithAges({{1}}, {Absent}, {{4}},
                           {r \in AgeRanges : r[1] \in {0, MaxAge} /\ r[2] \in {0, MaxAge}})

NextAges ==
    \/ CourseCreate(AgePayloads)
    \/ CourseUpdate(AgePayloads)
    \/ ListCourses

SpecAges == Init /\ [][NextAges]_vars

\* The courses the employee row of the user is linked to
TaughtCourses(u) == IF HasEmployee(u) THEN employees[u].courses \cap DOMAIN courses ELSE {}

\* C16: for a caller of the teacher group and every age a, the listing of
\* /api/courses/?age=a holds exactly the courses with min_age <= a <= max_age
\* that the caller's employee row is linked to, each once, in ascending id
\* order.
C16_TeacherAgeListing ==
    (last.op = "ListCourses" /\ InGroup(last.caller, "teacher") /\ last.age.given)
    => /\ {last.rows[i] : i \in DOMAIN last.rows}
              = {c \in TaughtCourses(last.caller) :
                    courses[c].min_age <= last.age.value
                        /\ last.age.value <= courses[c].max_age}
       /\ \A i, j \in DOMAIN last.rows : i < j => last.rows[i] < last.rows[j]

C16_Witness ==
    /\ last.op = "ListCourses" /\ InGroup(last.caller, "teacher") /\ last.age.given
    /\ Cardinality(TaughtCourses(last.caller)) = 2
    /\ last.rows = <<2>>
    /\ courses[1].max_age < last.age.value

(***************************************************************************)
(* Employee writes: EmployeeViewSet with EmployeeSerializer and            *)
(* EmployeeSerializerForOwner, writable nested serializers over the        *)
(* employee's user.                                                        *)
(*                                                                         *)
(* The nested user is written from the raw `user` data of the request:     *)
(* the serializer looks the user up by the id found in that data, updates  *)
(* it when it exists and creates a user otherwise.  The update view adds   *)
(* the key 'user.id' with the employee's id to the request data: form data *)
(* reads it as the id of the nested user, JSON data does not (the key is   *)
(* not inside the `user` object), so there the id is the one the client    *)
(* sent, if any.                                                           *)
(***************************************************************************)
\* Payloads over the given values of partner, the nested user's id and
\* group ("" for no group key), and branches; partner, user and branches may
\* also be absent
EmployeePayloads(partnerIds, userIds, groups, branchSets) ==
    {[hasPartner |-> p # None, partner |-> p,
      hasUser |-> u # <<>>,
      userId |-> IF u = <<>> THEN None ELSE u[1],
      hasGroup |-> u # <<>> /\ u[2] # "",
      group |-> IF u = <<>> THEN "" ELSE u[2],
      hasBranches |-> bs # <<>>, branches |-> IF bs = <<>> THEN {} ELSE bs[1]] :
        p \in {None} \cup partnerIds,
        u \in {<<>>} \cup (({None} \cup userIds) \X groups),
        bs \in {<<>>} \cup {<<x>> : x \in branchSets}}

\* EmployeeViewSet.get_serializer_class
EmployeeSerializerClass(caller) ==
    IF InGroup(caller, "owner") THEN "EmployeeSerializerForOwner" ELSE "EmployeeSerializer"

EmployeeInternalValueKeepPartner(cls, payload) == payload

\* The fields the serializer takes from the payload:
\* EmployeeSerializerForOwner has partner read-only
EmployeeInternalValue(cls, payload) ==
    IF cls = "EmployeeSerializerForOwner"
    THEN [payload EXCEPT !.hasPartner = FALSE, !.partner = None]
    ELSE payload

\* The nested user data as UserSerializer sees it
NestedUser(data) == [hasGroup |-> data.hasGroup, group |-> data.group, image |-> Absent]

\* Group.objects.get(name='superuser') == value['group']: a Group row
\* compared with the group's name, a string, is never equal
GroupEqualsName(name, value) == FALSE

\* EmployeeSerializerForOwner.validate_user
ValidateUserRejects(data) ==
    data.hasGroup /\ GroupEqualsName("superuser", data.group)

\* Field validation: partner is required (not on a partial update) and must
\* exist; user is required likewise and is validated by UserSerializer;
\* branches must exist; validate_user runs when the user field is valid
EmployeeFieldErrors(cls, data, partial) ==
    \/ cls = "EmployeeSerializer" /\ ~data.hasPartner /\ ~partial
    \/ data.hasPartner /\ data.partner \notin DOMAIN partners
    \/ ~data.hasUser /\ ~partial
    \/ data.hasUser /\ UserFieldErrors(NestedUser(data), partial)
    \/ data.hasBranches /\ ~(data.branches \subseteq DOMAIN branches)
    \/ cls = "EmployeeSerializerForOwner" /\ data.hasUser /\ ValidateUserRejects(data)

EmployeeWritten(caller, cls, instance, id, payload, form, status) ==
    [op |-> "EmployeeWrite", caller |-> caller, cls |-> cls, instance |-> instance,
     id |-> id, payload |-> payload, form |-> form, status |-> status]

\* update_or_create_direct_relations: the user the nested data addresses,
\* None when it names no stored user
NestedTarget(data) == IF data.userId \in DOMAIN users THEN data.userId ELSE None

\* The users after the nested UserSerializer saved: create() for a new user
\* `id`, update() for the user addressed
NestedSaved(data, target, id) ==
    IF target = None
    THEN users @@ (id :> [email |-> FreshEmail(id),
                          groups |-> {data.group},
                          is_superuser |-> data.group = "superuser",
                          image |-> NoFile])
    ELSE [users EXCEPT ![target].groups = UpdateGroups(@, NestedUser(data)),
                       ![target].is_superuser =
                           IF data.hasGroup /\ data.group = "superuser" THEN TRUE ELSE @]

\* POST /api/employees/
EmployeeCreate(payloads) ==
    \E caller \in Callers, payload \in payloads :
        LET cls == EmployeeSerializerClass(caller)
            data == EmployeeInternalValue(cls, payload)
            target == NestedTarget(data)
            uid == IF target = None THEN nextId.user ELSE target
            written(id, status) == EmployeeWritten(caller, cls, None, id, payload, FALSE, status)
        IN  /\ IF EmployeeFieldErrors(cls, data, FALSE)
               THEN /\ last' = written(None, 400)
                    /\ UNCHANGED <<users, employees, nextId>>
               ELSE IF cls = "EmployeeSerializerForOwner" /\ OwnedPartners(caller) = {}
               THEN \* EmployeeSerializerForOwner.create: request.user.owned_partner raises
                    /\ last' = written(None, 500)
                    /\ UNCHANGED <<users, employees, nextId>>
               ELSE /\ target = None => nextId.user <= MaxUsers
                    /\ IF uid \in DOMAIN employees
                       THEN \* the user has an employee row: the insert fails
                            \* after the nested user was written
                            /\ \E atomic \in BOOLEAN :
                                   users' = IF atomic THEN users
                                            ELSE NestedSaved(data, target, uid)
                            /\ last' = written(None, 500)
                            /\ UNCHANGED <<employees, nextId>>
                       ELSE /\ users' = NestedSaved(data, target, uid)
                            /\ employees' = employees @@
                                   (uid :> [partner |-> IF cls = "EmployeeSerializerForOwner"
                                                        THEN OwnedPartner(caller)
                                                        ELSE data.partner,
                                            branches |-> data.branches,
                                            courses |-> {}])
                            /\ nextId' = IF target = None
                                         THEN [nextId EXCEPT !.user = uid + 1]
                                         ELSE nextId
                            /\ last' = written(uid, 201)
            /\ UNCHANGED <<partners, branches, catalogue, store, inflight>>

\* PUT and PATCH /api/employees/<e>/: EmployeeViewSet.update.  The employee's
\* primary key is its user: when the nested serializer returns another user
\* than the employee's, save() writes the row of that user (updating it, or
\* inserting it) and the row of <e> stays.
EmployeeUpdate(ids, payloads) ==
    \E caller \in Callers, e \in ids, payload \in payloads,
       partial \in BOOLEAN, form \in BOOLEAN :
        LET cls == EmployeeSerializerClass(caller)
            sent == IF form
                    THEN [payload EXCEPT !.hasUser = TRUE, !.userId = e]
                    ELSE payload
            data == EmployeeInternalValue(cls, sent)
            target == NestedTarget(data)
            uid == IF ~data.hasUser THEN e
                   ELSE IF target = None THEN nextId.user ELSE target
            row == [employees[e] EXCEPT
                       !.partner = IF data.hasPartner THEN data.partner ELSE @,
                       !.branches = IF data.hasBranches THEN data.branches ELSE @]
            written(id, status) == EmployeeWritten(caller, cls, e, id, payload, form, status)
        IN  /\ payload.hasBranches => ~partial   \* PUT and PATCH differ only in what may be absent
            /\ IF RoleScopeRaises(caller)
               THEN /\ last' = written(None, 500)
                    /\ UNCHANGED <<users, employees, nextId>>
               ELSE IF e \notin EmployeeRoleScope(caller)
               THEN /\ last' = written(None, 404)
                    /\ UNCHANGED <<users, employees, nextId>>
               ELSE IF EmployeeFieldErrors(cls, data, partial)
               THEN /\ last' = written(None, 400)
                    /\ UNCHANGED <<users, employees, nextId>>
               ELSE IF data.hasUser /\ target = None
                       /\ UserFieldErrors(NestedUser(data), FALSE)
               THEN \* the nested serializer creates a user and is not partial
                    /\ last' = written(None, 400)
                    /\ UNCHANGED <<users, employees, nextId>>
               ELSE /\ (data.hasUser /\ target = None) => nextId.user <= MaxUsers
                    /\ users' = IF data.hasUser THEN NestedSaved(data, target, uid) ELSE users
                    /\ nextId' = IF data.hasUser /\ target = None
                                 THEN [nextId EXCEPT !.user = uid + 1]
                                 ELSE nextId
                    /\ employees' =
                           IF uid = e THEN [employees EXCEPT ![e] = row]
                           ELSE [x \in DOMAIN employees \cup {uid} |->
                                    IF x # uid THEN employees[x]
                                    ELSE [partner |-> row.partner,
                                          branches |->
                                              IF data.hasBranches THEN data.branches
                                              ELSE IF uid \in DOMAIN employees
                                              THEN employees[uid].branches ELSE {},
                                          courses |->
                                              IF uid \in DOMAIN employees
                                              THEN employees[uid].courses ELSE {}]]
                    /\ last' = written(uid, 200)
            /\ UNCHANGED <<partners, branches, catalogue, store, inflight>>

EmployeeDestroyed(caller, e, visible, status, raising) ==
    [op |-> "EmployeeDestroy", caller |-> caller, id |-> e, visible |-> visible,
     status |-> status, raising |-> raising]

UsersAfterEmployeeDelete(e) == users

\* user.delete() in destroy: the user row goes
UsersAfterDestroy(e) == [x \in DOMAIN users \ {e} |-> users[x]]

\* DELETE /api/employees/<e>/: EmployeeViewSet.destroy deletes the user of
\* the employee (User.delete, which catches the errors of the store);
\* Employee.user is on_delete=CASCADE, Partner.owner is on_delete=SET_NULL
EmployeeDestroy ==
    \E caller \in Callers, e \in UserIds :
        /\ IF RoleScopeRaises(caller)
           THEN /\ last' = EmployeeDestroyed(caller, e, FALSE, 500, {})
                /\ UNCHANGED <<users, employees, partners, store>>
           ELSE IF e \notin EmployeeRoleScope(caller)
           THEN /\ last' = EmployeeDestroyed(caller, e, FALSE, 404, {})
                /\ UNCHANGED <<users, employees, partners, store>>
           ELSE \E raising \in DeleteFailures(NamesToDelete(<<users[e].image>>)) :
                LET run == DeleteCaught(NamesToDelete(<<users[e].image>>), raising)
                IN  IF run.raised
                    THEN /\ store' = store \ run.deleted
                         /\ last' = EmployeeDestroyed(caller, e, TRUE, 500, raising)
                         /\ UNCHANGED <<users, employees, partners>>
                    ELSE /\ users' = UsersAfterDestroy(e)
                         /\ employees' = [x \in DOMAIN employees \ {e} |-> employees[x]]
                         /\ partners' = [p \in DOMAIN partners |->
                                            [partners[p] EXCEPT !.owner =
                                                IF @ = e THEN None ELSE @]]
                         /\ store' = store \ run.deleted
                         /\ last' = EmployeeDestroyed(caller, e, TRUE, 204, raising)
        /\ UNCHANGED <<branches, catalogue, nextId, inflight>>

\* Employees written with no partner value or the other tenant's, a nested
\* user that is new, the employee's own or the other tenant's teacher, and a
\* group that is valid or "superuser"
StaffPayloads ==
    EmployeePayloads({2}, {5}, {"teacher", "superuser"}, {})

\* The caller's teacher, the other tenant's teacher and the next user
StaffIds == {4, 5, MaxUsers}

NextStaff ==
    \/ EmployeeCreate(StaffPayloads)
    \/ EmployeeUpdate(StaffIds, StaffPayloads)
    \/ EmployeeDestroy

SpecStaff == Init /\ [][NextStaff]_vars

C19_OwnerWritesOwnPartner ==
    (last.op = "EmployeeWrite" /\ last.cls = "EmployeeSerializerForOwner"
        /\ last.status \in {200, 201})
    => /\ OwnedPartners(last.caller) # {}
       /\ employees[last.id].partner = OwnedPartner(last.caller)

C19_Witness ==
    /\ last.op = "EmployeeWrite" /\ last.cls = "EmployeeSerializerForOwner"
    /\ last.status = 200
    /\ last.payload.hasPartner
    /\ last.payload.partner # OwnedPartner(last.caller)
    /\ employees[last.id].partner = OwnedPartner(last.caller)

\* The step is an employee create or update by a caller of the owner group
\* whose nested user carries group "superuser"
SuperuserEmployeeStep ==
    /\ last'.op = "EmployeeWrite"
    /\ last'.cls = "EmployeeSerializerForOwner"
    /\ last'.payload.hasGroup
    /\ last'.payload.group = "superuser"

\* C20: an employee create or update by a caller of the owner group whose
\* nested user carries group "superuser" writes no user and no employee; a
\* create, and an update of an employee the caller can see, is answered with
\* the validation error 400.
C20_OwnerCannotGrantSuperuser ==
    [][SuperuserEmployeeStep
        => /\ users' = users
           /\ employees' = employees
           /\ last'.status \in {400, 404, 500}
           /\ (last'.instance = None
                 \/ (~RoleScopeRaises(last'.caller)
                       /\ last'.instance \in EmployeeRoleScope(last'.caller)))
                  => last'.status = 400]_vars

C20_Witness ==
    /\ last.op = "EmployeeWrite"
    /\ last.cls = "EmployeeSerializerForOwner"
    /\ last.payload.hasGroup /\ last.payload.group = "superuser"
    /\ last.instance \in DOMAIN employees
    /\ last.status = 400

(***************************************************************************)
(* Course updates by an owner.                                             *)
(***************************************************************************)
\* Payloads that carry every field of the model: categories, an image (or
\* null), teachers and the ages
WholeCoursePayloads ==
    CoursePayloadsWithAges({{1}, {MaxCategories}}, {Null, Upload("b.png")}, {{}, {4}},
                           {<<0, MaxAge>>})

NextOwnerCourse == CourseUpdate(WholeCoursePayloads)

SpecOwnerCourse == Init /\ [][NextOwnerCourse]_vars

\* The step is a course update through the owner's serializer
OwnerCourseStep ==
    /\ last'.op = "CourseWrite"
    /\ last'.cls = "CourseSerializerUpdateTeachers"

\* C18: an update or partial update of a course by a caller of the owner
\* group leaves the course rows (name, ages, categories, image), the
\* lessons, the categories and the stored blobs as they were, whatever the
\* payload holds; only the teachers of the course can change.
C18_OwnerUpdateChangesTeachersOnly ==
    [][OwnerCourseStep
        => /\ courses' = courses
           /\ lessons' = lessons
           /\ categories' = categories
           /\ store' = store
           /\ \A e \in DOMAIN employees :
                  /\ e \in DOMAIN employees'
                  /\ employees'[e].partner = employees[e].partner
                  /\ employees'[e].branches = employees[e].branches
                  /\ employees'[e].courses \ {last'.instance}
                         = employees[e].courses \ {last'.instance}]_vars

C18_Witness ==
    /\ last.op = "CourseWrite"
    /\ last.cls = "CourseSerializerUpdateTeachers"
    /\ last.status = 200
    /\ last.hasCategories
    /\ last.submitted # courses[last.id].categories
    /\ last.fields[1].kind = "upload"
    /\ last.fields[1].old = courses[last.id].image
    /\ \A e \in DOMAIN employees : last.id \notin employees[e].courses

(***************************************************************************)
(* Lesson create, and the extension checks of the lesson serializer.       *)
(***************************************************************************)
\* What `last` keeps of a POST /api/lessons/: the course the payload names
\* and the two file fields, which have no stored name yet
LessonCreated(course, l, payload, status, saved) ==
    [op |-> "LessonWrite", entity |-> "lesson", cls |-> "LessonSerializer",
     instance |-> None, course |-> course, id |-> l, status |-> status,
     fields |-> <<FieldSeen(payload.presentation, NoFile),
                  FieldSeen(payload.additional_file, NoFile)>>,
     raising |-> {}, deleted |-> saved.deleted, put |-> saved.put]

\* POST /api/lessons/: course is a required foreign key; Lesson.save() of a
\* new row deletes nothing and uploads the files under the course's name
LessonCreate(payloads) ==
    \E caller \in Callers, course \in CourseIds, payload \in payloads :
        LET id == nextId.lesson
            news == <<Assigned(NoFile, payload.presentation),
                      Assigned(NoFile, payload.additional_file)>>
        IN  /\ id <= MaxLessons
            /\ IF \/ course \notin DOMAIN courses
                  \/ ~ValidatePresentation(payload.presentation)
                  \/ ~ValidateAdditionalFile(payload.additional_file)
               THEN /\ last' = LessonCreated(course, None, payload, 400, NotSaved)
                    /\ UNCHANGED <<lessons, store, nextId>>
               ELSE LET saved == ModelSave(<<>>, news, courses[course].name, {})
                    IN  /\ lessons' = lessons @@
                               (id :> [course |-> course,
                                       presentation |-> saved.refs[1],
                                       additional_file |-> saved.refs[2]])
                        /\ store' = store \cup saved.put
                        /\ nextId' = [nextId EXCEPT !.lesson = id + 1]
                        /\ last' = LessonCreated(course, id, payload, 201, saved)
            /\ UNCHANGED <<users, partners, employees, branches, categories, courses, inflight>>

\* The payloads of the lesson-write specification: for each field a file it
\* allows, a file only the other field allows, and a file neither allows
ExtensionPayloads ==
    LessonPayloads({Absent, Upload("q.pdf"), Upload("z.zip"), Upload("a.png")},
                   {Absent, Upload("q.pdf"), Upload("p.pptx"), Upload("a.png")})

NextLessonWrite ==
    \/ LessonCreate(ExtensionPayloads)
    \/ LessonUpdate(ExtensionPayloads)

SpecLessonWrite == Init /\ [][NextLessonWrite]_vars

\* A step that is a lesson create or update which reached the serializer:
\* the lesson of an update was found, the course of a create exists
LessonSerializerStep ==
    /\ last'.op = "LessonWrite"
    /\ last'.status # 404
    /\ Len(last'.fields) = 2
    /\ "course" \in DOMAIN last' => last'.course \in DOMAIN courses

\* The file names the two fields allow
PresentationAllowed(f) ==
    f.kind = "upload" => Suffix[f.name] \in {".pptx", ".pdf"}

AdditionalFileAllowed(f) ==
    f.kind = "upload" => Suffix[f.name] \in {".pdf", ".zip"}

C22_AsStated ==
    \A e \in DOMAIN employees : \A b \in employees[e].branches :
        b \in DOMAIN branches => employees[e].partner = branches[b].partner

(***************************************************************************)
(* The group of a partner's owner.                                         *)
(***************************************************************************)
\* C23, as stated: in every state reached by partner and user writes, a
\* partner's owner, if set, is a member of the owner group.
C23_AsStated ==
    \A p \in DOMAIN partners :
        partners[p].owner # None =>
            partners[p].owner \in DOMAIN users /\ InGroup(partners[p].owner, "owner")

(***************************************************************************)
(* Emails of users.                                                        *)
(***************************************************************************)
\* The addresses a client sends: one a user has, the same in capitals, and
\* one no user has, in both spellings
ClientEmails == {"owner1@gmail.com", "OWNER1@gmail.com", "new@gmail.com", "New@gmail.com"}

EmailPayloads == UserPayloadsWithEmail({"", "teacher"}, {Absent}, ClientEmails)

\* The users it updates: an owner, a teacher and the user it creates
EmailUsers == {2, 4, MaxUsers}

NextEmail ==
    \/ UserCreate(EmailPayloads)
    \/ UserUpdate(EmailUsers, EmailPayloads)

SpecEmail == Init /\ [][NextEmail]_vars

\* Every stored email is lower-case and no two users have the same one
EmailsNormalisedAndUnique ==
    /\ \A u \in DOMAIN users : Lower(users[u].email) = users[u].email
    /\ \A u, v \in DOMAIN users : u # v => users[u].email # users[v].email

\* A step that is a user write whose email is, up to letter case, the email
\* of another user than the one it writes
DuplicateEmailStep ==
    /\ last'.op = "UserWrite"
    /\ last'.hasEmail
    /\ \E v \in DOMAIN users \ {last'.instance} :
           Lower(users[v].email) = Lower(last'.email)

\* C24: after any user creations through the manager and updates through
\* the serializer every stored email is lower-case and no two users share
\* one; a write whose email is, up to letter case, another user's fails and
\* leaves the stored users as they were.
C24_EmailsLowerCaseAndUnique ==
    [][/\ EmailsNormalisedAndUnique'
       /\ DuplicateEmailStep => last'.status >= 400 /\ users' = users]_vars

\* An update that also changes the group failed on another user's address
\* written in capitals, after a create in capitals was stored in lower case
C24_Witness ==
    /\ last.op = "UserWrite" /\ last.status = 500
    /\ last.instance = 2 /\ last.hasGroup /\ last.group = "teacher"
    /\ last.email = "New@gmail.com"
    /\ users[2].groups = {"owner"}
    /\ \E u \in DOMAIN users \ DOMAIN FixtureUsers : users[u].email = "new@gmail.com"

(***************************************************************************)
(* Concurrent updates of a lesson.  A request is handled by one worker, in *)
(* the steps the code takes against the database and the store: it loads   *)
(* the row and assigns the payload (get_object, serializer.update), and    *)
(* Lesson.save() reads the row again (old_lesson), deletes from the store, *)
(* uploads (FileField.pre_save) and writes the row.  Nothing orders the    *)
(* steps of two workers.                                                   *)
(***************************************************************************)
\* What the two requests carry for the presentation: none, a new file, and
\* another file
RacePayloads == LessonPayloads({Absent, Upload("q.pdf"), Upload("p.pptx")}, {Absent})

\* What `last` keeps of a request a worker has answered
Answered(w, l, payload, status) ==
    [op |-> "LessonUpdated", worker |-> w, id |-> l, status |-> status,
     presentation |-> payload.presentation]

\* get_object() and serializer.update() up to instance.save(): the instance
\* holds the row as it was read, with the payload's files assigned
RequestBegin(w) ==
    \E l \in DOMAIN lessons, payload \in RacePayloads :
        /\ inflight[w].pc = "idle"
        /\ inflight' = [inflight EXCEPT ![w] =
               [pc |-> "read", lesson |-> l, payload |-> payload,
                dir |-> PresentationUploadDir(l),
                news |-> LessonNews(l, payload), olds |-> <<>>]]
        /\ UNCHANGED <<users, partners, employees, branches, catalogue, store, nextId, last>>

\* Lesson.save(): old_lesson = Lesson.objects.get(pk=self.pk)
SaveReadOld(w) ==
    /\ inflight[w].pc = "read"
    /\ inflight' = [inflight EXCEPT ![w].pc = "delete",
                                    ![w].olds = LessonOlds(inflight[w].lesson)]
    /\ UNCHANGED <<users, partners, employees, branches, catalogue, store, nextId, last>>

\* Lesson.save(): the two ifs of each file field, against old_lesson
SaveDeleteOld(w) ==
    LET r == inflight[w]
    IN  /\ r.pc = "delete"
        /\ store' = store \ Range(DeleteCalls(r.olds, r.news))
        /\ inflight' = [inflight EXCEPT
               ![w].pc = "upload",
               ![w].news = [i \in DOMAIN r.news |-> SaveKeeps(r.olds[i], r.news[i])]]
        /\ UNCHANGED <<users, partners, employees, branches, catalogue, nextId, last>>

\* super().save(), pre_save of the file fields: a file that is not committed
\* is put in the store
SaveUpload(w) ==
    LET r == inflight[w]
    IN  /\ r.pc = "upload"
        /\ store' = store \cup {StorageName(r.dir, r.news[i].ref.name) :
                                   i \in {j \in DOMAIN r.news : NeedsUpload(r.news[j])}}
        /\ inflight' = [inflight EXCEPT
               ![w].pc = "write",
               ![w].news = [i \in DOMAIN r.news |->
                               [ref |-> PreSave(r.dir, r.news[i]), committed |-> TRUE]]]
        /\ UNCHANGED <<users, partners, employees, branches, catalogue, nextId, last>>

\* super().save(), the UPDATE of the row with the instance's values, and the
\* response
SaveWrite(w) ==
    LET r == inflight[w]
    IN  /\ r.pc = "write"
        /\ lessons' = [lessons EXCEPT ![r.lesson].presentation = r.news[1].ref,
                                      ![r.lesson].additional_file = r.news[2].ref]
        /\ last' = Answered(w, r.lesson, r.payload, 200)
        /\ inflight' = [inflight EXCEPT ![w] = Idle]
        /\ UNCHANGED <<users, partners, employees, branches, categories, courses, store,
                       nextId>>

NextRace ==
    \E w \in Workers :
        \/ RequestBegin(w)
        \/ SaveReadOld(w)
        \/ SaveDeleteOld(w)
        \/ SaveUpload(w)
        \/ SaveWrite(w)

SpecRace == Init /\ [][NextRace]_vars

\* C25, as stated: once the concurrent updates of a lesson have completed,
\* the presentation the lesson references, if any, is a blob of the store.
C25_AsStated ==
    (\A w \in Workers : inflight[w].pc = "idle")
    => \A l \in DOMAIN lessons :
           HasFile(lessons[l].presentation) => lessons[l].presentation \in store

(***************************************************************************)
(* The category graph and the ancestor walk of a course write.             *)
(***************************************************************************)
\* Course payloads that submit one category
SingleCategoryPayloads == CoursePayloads({{c} : c \in CategoryIds}, {Absent}, {})

NextTree ==
    \/ CategoryCreate
    \/ CategoryUpdate
    \/ CourseCreate(SingleCategoryPayloads)

SpecTree == Init /\ [][NextTree]_vars

\* C26, as stated: whatever category creates and updates came before, the
\* ancestor walk of a course write comes to an end, so the write is answered.
C26_AsStated ==
    last.op = "CourseWrite" => last.status # Hangs

(***************************************************************************)
(* The teachers an owner's course update touches.                          *)
(***************************************************************************)
\* The partners owned by the callers of the owner group
CallerOwnedPartners ==
    {p \in DOMAIN partners : partners[p].owner \in Callers}

\* Among the rows `rows` of the employee table, the teachers of course c
\* who work for a partner no caller owns
OtherPartnersTeachers(rows, c) ==
    {e \in DOMAIN rows : c \in rows[e].courses /\ rows[e].partner \notin CallerOwnedPartners}

\* C27, as stated: a course update by a caller of the owner group leaves the
\* employees of other partners who teach the course the same as before.
C27_AsStated ==
    [][(last'.op = "CourseWrite" /\ last'.cls = "CourseSerializerUpdateTeachers"
           /\ last'.status = 200)
        => OtherPartnersTeachers(employees', last'.instance)
               = OtherPartnersTeachers(employees, last'.instance)]_vars

(***************************************************************************)
(* Branches created by an owner.                                           *)
(***************************************************************************)
\* C28, as stated: a branch created by a caller of the owner group with
\* employees of the caller's owned partner belongs to that partner and has
\* exactly the submitted employees assigned.
C28_AsStated ==
    (/\ last.op = "BranchWrite"
     /\ last.status = 201
     /\ InGroup(last.caller, "owner")
     /\ last.hasEmployees
     /\ \A e \in last.submitted : employees[e].partner = OwnedPartner(last.caller))
    => /\ branches[last.branch].partner = OwnedPartner(last.caller)
       /\ BranchEmployees(last.branch) = last.submitted

(***************************************************************************)
(* The blobs of the lessons of a deleted course.                           *)
(***************************************************************************)
\* C29, as stated: when a course is deleted and no deletion in the store
\* fails, no blob that was attached to a lesson removed with the course
\* (its presentation, its additional file) remains in the store.
C29_AsStated ==
    [][(last'.op = "Destroy" /\ last'.entity = "course" /\ last'.status = 204
           /\ last'.raising = {})
        => \A l \in DOMAIN lessons \ DOMAIN lessons' :
               /\ lessons[l].presentation \notin store'
               /\ lessons[l].additional_file \notin store']_vars

(***************************************************************************)
(* The course listing with all its query parameters.  A filter over a      *)
(* many-to-many relation (teacher, categories) is a join: the listing has  *)
(* one row for each related row that matches, and get_queryset calls no    *)
(* distinct().  The category filter is given by the set of categories      *)
(* whose name contains the value.                                          *)
(***************************************************************************)
\* n times the row c
RECURSIVE Repeat(_, _)
Repeat(c, n) == IF n = 0 THEN <<>> ELSE <<c>> \o Repeat(c, n - 1)

\* The rows of the join for course c: one for each teacher link that matches
\* the caller's role filter, times one for each that matches the teacher
\* parameter, times one for each category that matches the category filter
JoinRows(c, caller, q) ==
    LET teaching == {e \in DOMAIN employees : c \in employees[e].courses}
        role == IF InGroup(caller, "teacher")
                THEN Cardinality({e \in teaching : e = caller}) ELSE 1
        teacher == IF q.teacher # None
                   THEN Cardinality({e \in teaching : e = q.teacher}) ELSE 1
        category == IF q.category.on
                    THEN Cardinality(courses[c].categories \cap q.category.rows) ELSE 1
    IN  role * teacher * category

\* CourseViewSet.get_queryset: the role part, then teacher, search, status,
\* category and age, in id order
CourseGetQuerysetJoined(caller, q) ==
    LET columns == {c \in Narrow(Narrow(DOMAIN courses, q.search), q.status) :
                       q.age.given => AgeMatches(c, q.age.value)}
        ids == OrderById(columns)
    IN  Flatten([i \in DOMAIN ids |-> Repeat(ids[i], JoinRows(ids[i], caller, q))])

\* GET /api/courses/?teacher=&search=&status=&category=&age=
ListCoursesFiltered ==
    \E caller \in Callers, teacher \in {None, 4, 5}, age \in QueryAges :
    \E search \in ColumnFilters(DOMAIN courses),
       status \in PlainFilters(DOMAIN courses),
       category \in ColumnFilters(DOMAIN categories) :
        LET q == [teacher |-> teacher, search |-> search, status |-> status,
                  category |-> category, age |-> age]
        IN  /\ last' = [op |-> "ListCoursesFiltered", caller |-> caller, query |-> q,
                        rows |-> CourseGetQuerysetJoined(caller, q)]
            /\ UNCHANGED <<users, partners, employees, branches, catalogue, store, nextId,
                           inflight>>

NextListing == ListCoursesFiltered

SpecListing == Init /\ [][NextListing]_vars

\* C30, as stated: for every caller and every combination of the teacher,
\* search, status, category and age filters, no course is listed twice.
C30_AsStated ==
    last.op = "ListCoursesFiltered"
    => \A i, j \in DOMAIN last.rows : i # j => last.rows[i] # last.rows[j]
====
